---- MODULE Spec2Model ----
(***************************************************************************)
(* Model of server.py, the Facebook Marketing API tool server: the         *)
(* process-wide token / default-ad-account / configuration caches, the     *)
(* identifier resolver, and the tools that call the Graph API and drain    *)
(* its pagination.                                                         *)
(*                                                                         *)
(* Python strings are modelled as sequences of atoms.  An atom is a piece  *)
(* of text that the code never looks inside: a whitespace character, one   *)
(* of the four characters of the prefix act_, or an opaque run of other    *)
(* characters ("1", "T1", "--fb-token").  str.strip() and                  *)
(* str.startswith('act_') are computed on these sequences.                 *)
(*                                                                         *)
(* Python values of unknown type (JSON fields, tool arguments) are records *)
(* [t, v]: t is the type tag and v the string form of the value.           *)
(***************************************************************************)
EXTENDS Integers, Sequences, FiniteSets, TLC

\* ------------------------------------------------------------------------
\* Bounds of the model
\* ------------------------------------------------------------------------

\* Longest page chain the remote serves to one draining call.
MaxPages == 3

\* Number of tool invocations that may be in flight at once when the server
\* handles invocations concurrently.
NumProcs == 2

\* The calls of json.loads on MCP_CONFIG are counted up to this number.
MaxParses == 2

\* ------------------------------------------------------------------------
\* Python values
\* ------------------------------------------------------------------------

PyNone == [t |-> "none", v |-> <<>>]

\* A key that a dict does not have; dict.get reads it as None.
Absent == [t |-> "absent", v |-> <<>>]

Get(x) == IF x.t = "absent" THEN PyNone ELSE x

Str(s) == [t |-> "str", v |-> s]

Num(s) == [t |-> "int", v |-> s]

EmptyList == [t |-> "list", v |-> <<>>]

IsStr(x) == x.t = "str"

IsNone(x) == x.t = "none"

\* bool(x): None, "", 0 and empty containers are false.
Truthy(x) ==
  CASE x.t \in {"none", "absent"} -> FALSE
    [] x.t = "int"  -> x.v # <<"0">>
    [] x.t = "bool" -> x.v = <<"True">>
    [] OTHER        -> x.v # <<>>

\* str(x) of a string or a number.
PyStr(x) == IF x.t = "none" THEN <<"None">> ELSE x.v

WS == {" ", "\t"}

RECURSIVE LStrip(_)
LStrip(s) == IF s # <<>> /\ Head(s) \in WS THEN LStrip(Tail(s)) ELSE s

RECURSIVE RStrip(_)
RStrip(s) ==
  IF s # <<>> /\ s[Len(s)] \in WS THEN RStrip(SubSeq(s, 1, Len(s) - 1)) ELSE s

\* str.strip()
Strip(s) == RStrip(LStrip(s))

ACT == <<"a", "c", "t", "_">>

\* s.startswith('act_')
StartsWithAct(s) == Len(s) >= Len(ACT) /\ SubSeq(s, 1, Len(ACT)) = ACT

\* Results of operations that may raise: err = "" when the call returned.
Ok(val) == [err |-> "", val |-> val]

Raise(kind) == [err |-> kind, val |-> <<>>]

\* _normalize_act_id without the prefix test: a plausible slip.
normalize_act_id_noprefix(act_id) ==
  LET act_id_str == Strip(PyStr(act_id))
  IN IF act_id_str = <<>> THEN Raise("ValueError") ELSE Ok(act_id_str)

\* _normalize_act_id adding the prefix without looking for it: a plausible
\* slip.
normalize_act_id_always(act_id) ==
  LET act_id_str == Strip(PyStr(act_id))
  IN IF act_id_str = <<>> THEN Raise("ValueError") ELSE Ok(ACT \o act_id_str)

\* _normalize_act_id: trimmed, and prefixed with act_ when missing.
normalize_act_id(act_id) ==
  LET act_id_str == Strip(PyStr(act_id))
  IN IF act_id_str = <<>>
       THEN Raise("ValueError")
       ELSE Ok(IF StartsWithAct(act_id_str) THEN act_id_str ELSE ACT \o act_id_str)

\* ------------------------------------------------------------------------
\* Process environment: MCP_CONFIG, FB_DEFAULT_ACT_ID/NAME, sys.argv
\* ------------------------------------------------------------------------

IdAliases ==
  <<"defaultActId", "actId", "default_ad_account_id", "facebook_ad_account_id">>

NameAliases ==
  <<"defaultActName", "actName", "default_ad_account_name",
    "facebook_ad_account_name">>

ConfigKeys ==
  {"fbToken"} \cup {IdAliases[i] : i \in 1..Len(IdAliases)}
              \cup {NameAliases[i] : i \in 1..Len(NameAliases)}

\* mapping.get(key) of a key that is not there is None.
EmptyMap == [k \in ConfigKeys |-> PyNone]

NoMapping == [t |-> "none", m |-> EmptyMap]

Mapping(m) == [t |-> "dict", m |-> m]

\* A parsed JSON document: t is "dict", "list" or "none" (JSON null); top is
\* the mapping of a dict and user its user_config entry.
EmptyConfig == [t |-> "dict", top |-> EmptyMap, user |-> NoMapping]

NullConfig == [t |-> "none", top |-> EmptyMap, user |-> NoMapping]

ListConfig == [t |-> "list", top |-> EmptyMap, user |-> NoMapping]

Config(top, user) == [t |-> "dict", top |-> top, user |-> user]

With1(k, x) == [EmptyMap EXCEPT ![k] = x]

With2(k1, x1, k2, x2) == [EmptyMap EXCEPT ![k1] = x1, ![k2] = x2]

\* os.environ.get("MCP_CONFIG"): unset, the empty string, text that is not
\* JSON, or JSON text (doc is what json.loads makes of it).
RawUnset == [kind |-> "unset", doc |-> EmptyConfig]

RawEmpty == [kind |-> "empty", doc |-> EmptyConfig]

RawMalformed == [kind |-> "malformed", doc |-> EmptyConfig]

RawJson(doc) == [kind |-> "json", doc |-> doc]

\* Position of the first occurrence of flag in sys.argv, 0 when not in it.
ArgvIndex(args, flag) ==
  IF \E i \in 1..Len(args) : args[i] = flag
    THEN CHOOSE i \in 1..Len(args) :
           args[i] = flag /\ \A j \in 1..(i - 1) : args[j] # flag
    ELSE 0

FlagToken == <<"--fb-token">>

FlagActId == <<"--default-act-id">>

FlagActName == <<"--default-act-name">>

\* ------------------------------------------------------------------------
\* State
\* ------------------------------------------------------------------------

VARIABLES
  FB_ACCESS_TOKEN,          \* the module global: PyNone or the stored token
  DEFAULT_AD_ACCOUNT,       \* the module global: NoAccount or an account
  CONFIG_CACHE,             \* the module global: NullConfig (None) or a document
  CONFIG_LOAD_ERROR_LOGGED, \* the module global _CONFIG_LOAD_ERROR_LOGGED
  environ,                  \* os.environ, fixed when the process starts
  argv,                     \* sys.argv, fixed when the process starts
  served,                   \* position of the __main__ block
  parses,                   \* history: calls of json.loads on MCP_CONFIG so far
  inv                       \* the tool invocations: one record per slot

vars ==
  <<FB_ACCESS_TOKEN, DEFAULT_AD_ACCOUNT, CONFIG_CACHE, CONFIG_LOAD_ERROR_LOGGED,
    environ, argv, served, parses, inv>>

\* DEFAULT_AD_ACCOUNT: None, or a dict with 'id' and, when named, 'name'.
NoAccount == [t |-> "none", id |-> <<>>, named |-> FALSE, name |-> PyNone]

Account(id, named, name) ==
  [t |-> "dict", id |-> id, named |-> named, name |-> name]

\* The module globals as one value, threaded through the helper functions:
\* every helper takes the globals it finds and returns the globals it leaves.
Globals ==
  [tok    |-> FB_ACCESS_TOKEN,
   acct   |-> DEFAULT_AD_ACCOUNT,
   cfg    |-> CONFIG_CACHE,
   logged |-> CONFIG_LOAD_ERROR_LOGGED,
   parses |-> parses]

SetGlobals(g) ==
  /\ FB_ACCESS_TOKEN' = g.tok
  /\ DEFAULT_AD_ACCOUNT' = g.acct
  /\ CONFIG_CACHE' = g.cfg
  /\ CONFIG_LOAD_ERROR_LOGGED' = g.logged
  /\ parses' = g.parses

\* A helper's outcome: the globals it leaves, what it returns, what it raises.
Ret(g, val) == [g |-> g, err |-> "", val |-> val]

Exc(g, kind) == [g |-> g, err |-> kind, val |-> <<>>]

\* ------------------------------------------------------------------------
\* Configuration and token helpers
\* ------------------------------------------------------------------------

\* Line 148: one more call of json.loads.
Parsed(n) == IF n < MaxParses THEN n + 1 ELSE n

\* _load_config_from_env: val is the document returned.
load_config_from_env(g) ==
  IF g.cfg.t # "none"
    THEN Ret(g, g.cfg)
    ELSE IF environ.MCP_CONFIG.kind \in {"unset", "empty"}
      THEN Ret([g EXCEPT !.cfg = EmptyConfig], EmptyConfig)
      ELSE IF environ.MCP_CONFIG.kind = "json"
        THEN Ret([g EXCEPT !.cfg = environ.MCP_CONFIG.doc,
                           !.parses = Parsed(@)],
                 environ.MCP_CONFIG.doc)
        ELSE Ret([g EXCEPT !.cfg = EmptyConfig, !.logged = TRUE,
                           !.parses = Parsed(@)],
                 EmptyConfig)

\* Line 167: config.get("fbToken") of a dict, None otherwise.
ConfiguredToken(config) ==
  IF config.t = "dict" THEN config.top["fbToken"] ELSE PyNone

\* Lines 166-173 of _ensure_fb_token_from_config: c is what
\* _load_config_from_env left and returned.
TokenFromConfig(c) ==
  IF Truthy(ConfiguredToken(c.val))
    THEN Ret([c.g EXCEPT !.tok = ConfiguredToken(c.val)], TRUE)
    ELSE Ret(c.g, FALSE)

\* _ensure_fb_token_from_config with a stored token overwritten by the
\* configured one: a plausible slip.
ensure_fb_token_from_config_overwrite(g) ==
  TokenFromConfig(load_config_from_env(g))

\* _ensure_fb_token_from_config: val is the boolean returned.
ensure_fb_token_from_config(g) ==
  IF Truthy(g.tok) THEN Ret(g, TRUE)
  ELSE TokenFromConfig(load_config_from_env(g))

\* Lines 189-200 of _get_fb_access_token: e is what
\* _ensure_fb_token_from_config left and returned, i the position of
\* --fb-token in sys.argv.
TokenFromArgv(e, i) ==
  IF e.val THEN Ret(e.g, e.g.tok)
  ELSE IF i > 0 /\ i + 1 <= Len(argv)
    THEN Ret([e.g EXCEPT !.tok = Str(argv[i + 1])], Str(argv[i + 1]))
    ELSE Exc(e.g, "Exception")

\* _get_fb_access_token returning None where it should raise: a plausible
\* slip.
TokenOrNone(t) == IF t.err # "" THEN Ret(t.g, PyNone) ELSE t

get_fb_access_token_lax(g) ==
  IF IsNone(g.tok)
    THEN TokenOrNone(TokenFromArgv(ensure_fb_token_from_config(g),
                                   ArgvIndex(argv, FlagToken)))
    ELSE Ret(g, g.tok)

\* _get_fb_access_token: val is the token returned.
get_fb_access_token(g) ==
  IF IsNone(g.tok)
    THEN TokenFromArgv(ensure_fb_token_from_config(g), ArgvIndex(argv, FlagToken))
    ELSE Ret(g, g.tok)

\* ------------------------------------------------------------------------
\* Default ad account helpers
\* ------------------------------------------------------------------------

\* _set_default_ad_account storing the id as given: a plausible slip.
set_default_ad_account_raw(g, act_id, act_name) ==
  IF ~IsStr(act_id) \/ Strip(act_id.v) = <<>>
    THEN Ret(g, FALSE)
    ELSE Ret([g EXCEPT !.acct = Account(act_id.v, FALSE, PyNone)], TRUE)

\* _set_default_ad_account: val is the boolean returned.
set_default_ad_account(g, act_id, act_name) ==
  IF ~IsStr(act_id) \/ Strip(act_id.v) = <<>>
    THEN Ret(g, FALSE)
    ELSE LET normalized_id == normalize_act_id(act_id).val
             named == IsStr(act_name) /\ Strip(act_name.v) # <<>>
         IN Ret([g EXCEPT !.acct =
                   Account(normalized_id, named,
                           IF named THEN Str(Strip(act_name.v)) ELSE PyNone)],
                TRUE)

\* The loops of _extract_from_mapping: the trimmed value of the first alias
\* that holds a non-blank string, None when there is none.
FirstAlias(m, aliases) ==
  LET good == {i \in 1..Len(aliases) :
                 IsStr(m[aliases[i]]) /\ Strip(m[aliases[i]].v) # <<>>}
  IN IF good = {}
       THEN PyNone
       ELSE LET i == CHOOSE i \in good : \A j \in good : i <= j
            IN Str(Strip(m[aliases[i]].v))

\* _extract_from_mapping: cand is [id, name], the nonlocal candidates.
extract_from_mapping(mapping, cand) ==
  IF mapping.t # "dict"
    THEN cand
    ELSE [id   |-> IF IsNone(cand.id) THEN FirstAlias(mapping.m, IdAliases)
                   ELSE cand.id,
          name |-> IF IsNone(cand.name) THEN FirstAlias(mapping.m, NameAliases)
                   ELSE cand.name]

\* Lines 102-105: the candidates MCP_CONFIG yields.
CandidateFromConfig(config) ==
  extract_from_mapping(IF config.t = "dict" THEN config.user ELSE NoMapping,
                       extract_from_mapping([t |-> config.t, m |-> config.top],
                                            [id |-> PyNone, name |-> PyNone]))

\* Lines 107-113: FB_DEFAULT_ACT_ID / FB_DEFAULT_ACT_NAME.
CandidateFromEnv(cand) ==
  LET env_id == environ.FB_DEFAULT_ACT_ID
      env_name == environ.FB_DEFAULT_ACT_NAME
  IN IF IsNone(cand.id) /\ IsStr(env_id) /\ Strip(env_id.v) # <<>>
       THEN [id   |-> Str(Strip(env_id.v)),
             name |-> IF IsStr(env_name) /\ Strip(env_name.v) # <<>>
                        THEN Str(Strip(env_name.v)) ELSE cand.name]
       ELSE cand

\* Lines 115-125: --default-act-id / --default-act-name; err is set when a
\* flag is the last word of the command line.
CandidateFromArgv(cand) ==
  LET i == ArgvIndex(argv, FlagActId)
      n == ArgvIndex(argv, FlagActName)
  IN IF IsNone(cand.id) /\ i > 0
       THEN IF i + 1 > Len(argv)
              THEN [err |-> "Exception", cand |-> cand]
              ELSE IF n > 0
                THEN IF n + 1 > Len(argv)
                       THEN [err |-> "Exception", cand |-> cand]
                       ELSE [err |-> "",
                             cand |-> [id |-> Str(argv[i + 1]),
                                       name |-> Str(argv[n + 1])]]
                ELSE [err |-> "",
                      cand |-> [id |-> Str(argv[i + 1]), name |-> cand.name]]
       ELSE [err |-> "", cand |-> cand]

\* Lines 127-130: a is the candidate the sources left.
StoreCandidate(g, a) ==
  IF a.err # "" THEN Exc(g, a.err)
  ELSE IF Truthy(a.cand.id) THEN set_default_ad_account(g, a.cand.id, a.cand.name)
  ELSE Ret(g, FALSE)

NoCandidate == [id |-> PyNone, name |-> PyNone]

\* The sources consulted from the command line backwards: a plausible slip.
CandidateOf_cli_first(config) ==
  IF CandidateFromArgv(NoCandidate).err # "" \/
     ~IsNone(CandidateFromArgv(NoCandidate).cand.id)
    THEN CandidateFromArgv(NoCandidate)
    ELSE IF ~IsNone(CandidateFromEnv(NoCandidate).id)
      THEN [err |-> "", cand |-> CandidateFromEnv(NoCandidate)]
      ELSE [err |-> "", cand |-> CandidateFromConfig(config)]

\* Lines 102-125, the sources in the order of the code: MCP_CONFIG, then
\* the environment, then the command line.
CandidateOf(config) ==
  CandidateFromArgv(CandidateFromEnv(CandidateFromConfig(config)))

\* Lines 102-130: c is what _load_config_from_env left and returned.
DefaultFromSources(c) == StoreCandidate(c.g, CandidateOf(c.val))

\* _ensure_default_ad_account_from_config_sources: val is the boolean returned.
ensure_default_ad_account_from_config_sources(g) ==
  IF g.acct.t # "none" THEN Ret(g, TRUE)
  ELSE DefaultFromSources(load_config_from_env(g))

\* ------------------------------------------------------------------------
\* Graph API responses
\* ------------------------------------------------------------------------

\* A record of a data array: a dict with 'id', 'account_id' and 'name'
\* entries (Absent when the key is missing), or a value that is no dict.
Row(id, account_id, name) ==
  [t |-> "dict", id |-> id, account_id |-> account_id, name |-> name]

NotARow == [t |-> "other", id |-> Absent, account_id |-> Absent, name |-> Absent]

\* The 'data' entry of an envelope: a list, missing, or of another type.
DataList(items) == [t |-> "list", items |-> items]

DataMissing == [t |-> "absent", items |-> <<>>]

DataOther == [t |-> "other", items |-> <<>>]

\* The 'paging' entry of an envelope: a dict (cursors stands for its other
\* keys), missing, or of another type.
Paging(next, previous) ==
  [t |-> "dict", next |-> next, previous |-> previous, cursors |-> TRUE]

PagingMissing ==
  [t |-> "absent", next |-> Absent, previous |-> Absent, cursors |-> FALSE]

PagingOther ==
  [t |-> "other", next |-> Absent, previous |-> Absent, cursors |-> FALSE]

\* A JSON body, or the 'adaccounts' entry of the /me body: a dict with
\* 'data' and 'paging', missing, or of another type.
Envelope(data, paging) == [t |-> "dict", data |-> data, paging |-> paging]

NoEnvelope == [t |-> "absent", data |-> DataMissing, paging |-> PagingMissing]

OtherEnvelope == [t |-> "other", data |-> DataMissing, paging |-> PagingMissing]

\* ------------------------------------------------------------------------
\* _get_default_ad_account and _resolve_act_id
\* ------------------------------------------------------------------------

\* What a resolution step leaves: the globals, the error raised, the value
\* returned, and whether it stopped at the remote call of line 222 (then
\* token is the access token of its parameters).
Res(g, err, val, call, token) ==
  [g |-> g, err |-> err, val |-> val, call |-> call, token |-> token]

\* Lines 215-222: t is what _get_fb_access_token left and returned.
CallMe(t) ==
  IF t.err # "" THEN Res(t.g, t.err, NoAccount, FALSE, PyNone)
  ELSE Res(t.g, "", NoAccount, TRUE, t.val)

\* Lines 215-251 when nothing is fetched: e is what
\* _ensure_default_ad_account_from_config_sources left.
AfterSources(e) ==
  IF e.err # "" THEN Res(e.g, e.err, NoAccount, FALSE, PyNone)
  ELSE IF e.g.acct.t # "none" THEN Res(e.g, "", e.g.acct, FALSE, PyNone)
  ELSE CallMe(get_fb_access_token(e.g))

AsRes(x) == Res(x.g, x.err, x.val, FALSE, PyNone)

\* _get_default_ad_account dropping the cache on every call, as if
\* force_refresh defaulted to True: a plausible slip.
get_default_ad_account_begin_refresh(g, force_refresh) ==
  AfterSources(ensure_default_ad_account_from_config_sources(
                 [g EXCEPT !.acct = NoAccount]))

\* _get_default_ad_account, lines 209-222: up to the remote call.
get_default_ad_account_begin(g, force_refresh) ==
  IF force_refresh
    THEN AfterSources(ensure_default_ad_account_from_config_sources(
                        [g EXCEPT !.acct = NoAccount]))
    ELSE IF g.acct.t = "none"
      THEN AfterSources(ensure_default_ad_account_from_config_sources(g))
      ELSE Res(g, "", g.acct, FALSE, PyNone)

\* Lines 224-229: the list under adaccounts.data, empty when ill-shaped.
AdAccountsOf(section) ==
  IF section.t = "dict" /\ section.data.t = "list"
    THEN section.data.items ELSE <<>>

\* Lines 234-239: the id of the first account, built from account_id when
\* 'id' is missing or empty.
ResolvedIdOf(first_account) ==
  IF Truthy(Get(first_account.id))
    THEN Get(first_account.id)
    ELSE IF Truthy(Get(first_account.account_id))
      THEN LET account_id_str == PyStr(Get(first_account.account_id))
           IN Str(IF StartsWithAct(account_id_str) THEN account_id_str
                  ELSE ACT \o account_id_str)
      ELSE PyNone

\* _get_default_ad_account answering with a placeholder account instead of
\* raising when nothing is cached: a plausible slip.
CachedOrRaise_placeholder(g) ==
  IF g.acct.t = "none" THEN Ret(g, Account(ACT \o <<"None">>, FALSE, PyNone))
  ELSE Ret(g, g.acct)

\* Lines 248-251: raise when nothing is cached, else return the cache.
CachedOrRaise(g) ==
  IF g.acct.t = "none" THEN Exc(g, "ValueError") ELSE Ret(g, g.acct)

\* Lines 241-246: n is what _normalize_act_id made of the resolved id.
StoreResolved(g, n, name) ==
  IF n.err # "" THEN Exc(g, n.err)
  ELSE CachedOrRaise([g EXCEPT !.acct = Account(n.val, TRUE, name)])

\* _get_default_ad_account remembering that the remote named no account, so
\* that it does not ask again: a plausible slip.
get_default_ad_account_end_memo(g, section) ==
  IF /\ AdAccountsOf(section) # <<>>
     /\ AdAccountsOf(section)[1].t = "dict"
     /\ Truthy(ResolvedIdOf(AdAccountsOf(section)[1]))
    THEN StoreResolved(g, normalize_act_id(ResolvedIdOf(AdAccountsOf(section)[1])),
                       Get(AdAccountsOf(section)[1].name))
    ELSE Exc([g EXCEPT !.acct = Account(<<>>, FALSE, PyNone)], "ValueError")

\* _get_default_ad_account, lines 224-251: from the /me body on.
get_default_ad_account_end(g, section) ==
  IF /\ AdAccountsOf(section) # <<>>
     /\ AdAccountsOf(section)[1].t = "dict"
     /\ Truthy(ResolvedIdOf(AdAccountsOf(section)[1]))
    THEN StoreResolved(g, normalize_act_id(ResolvedIdOf(AdAccountsOf(section)[1])),
                       Get(AdAccountsOf(section)[1].name))
    ELSE CachedOrRaise(g)

\* Lines 270-273 of _resolve_act_id: d is what _get_default_ad_account left.
DefaultId(d) ==
  IF d.err # "" \/ d.call THEN Res(d.g, d.err, <<>>, d.call, d.token)
  ELSE IF d.val.id = <<>> THEN Res(d.g, "ValueError", <<>>, FALSE, PyNone)
  ELSE Res(d.g, "", d.val.id, FALSE, PyNone)

\* _resolve_act_id keeping the act_id given as the new default account.
GivenId_cached(g, n) ==
  IF n.err # "" THEN Res(g, n.err, n.val, FALSE, PyNone)
  ELSE Res([g EXCEPT !.acct = Account(n.val, FALSE, PyNone)], "", n.val, FALSE, PyNone)

\* Line 267: n is what _normalize_act_id made of the act_id given.
GivenId(g, n) == Res(g, n.err, n.val, FALSE, PyNone)

\* _resolve_act_id taking a blank act_id for none and falling back to the
\* default account: a plausible slip.
resolve_act_id_begin_fallback(g, act_id) ==
  IF Truthy(act_id) /\ Strip(PyStr(act_id)) # <<>>
    THEN GivenId(g, normalize_act_id(act_id))
    ELSE DefaultId(get_default_ad_account_begin(g, FALSE))

\* _resolve_act_id, up to the remote call of the default resolution.
resolve_act_id_begin(g, act_id) ==
  IF Truthy(act_id) THEN GivenId(g, normalize_act_id(act_id))
  ELSE DefaultId(get_default_ad_account_begin(g, FALSE))

\* _resolve_act_id, from the /me body on.
resolve_act_id_end(g, section) ==
  DefaultId(AsRes(get_default_ad_account_end(g, section)))

\* ------------------------------------------------------------------------
\* Request parameters: _prepare_params and _build_insights_params
\* ------------------------------------------------------------------------

PyTrue == [t |-> "bool", v |-> <<"True">>]

PyFalse == [t |-> "bool", v |-> <<"False">>]

\* A list of values.
List(items) == [t |-> "list", v |-> items]

\* A dict, as the sequence of its <<key, value>> pairs; a key is the sequence
\* of its characters.
Dict(pairs) == [t |-> "dict", v |-> pairs]

\* isinstance(value, list) and isinstance(value, (list, dict))
IsList(x) == x.t = "list"

IsListOrDict(x) == x.t \in {"list", "dict"}

RECURSIVE Escaped(_)
\* The characters of a string as json.dumps writes them between the quotes:
\* a quote and a backslash are preceded by a backslash.
Escaped(s) ==
  IF s = <<>> THEN <<>>
  ELSE (IF Head(s) \in {"\"", "\\"} THEN <<"\\", Head(s)>> ELSE <<Head(s)>>)
         \o Escaped(Tail(s))

RECURSIVE json_dumps(_)
RECURSIVE JsonItems(_)
RECURSIVE JsonPairs(_)
\* json.dumps with its default separators, as the text it writes.
json_dumps(x) ==
  CASE x.t = "str"  -> <<"\"">> \o Escaped(x.v) \o <<"\"">>
    [] x.t = "none" -> <<"null">>
    [] x.t = "bool" -> IF x = PyTrue THEN <<"true">> ELSE <<"false">>
    [] x.t = "list" -> <<"[">> \o JsonItems(x.v) \o <<"]">>
    [] x.t = "dict" -> <<"{">> \o JsonPairs(x.v) \o <<"}">>
    [] OTHER        -> x.v

JsonItems(items) ==
  IF items = <<>> THEN <<>>
  ELSE json_dumps(Head(items))
         \o (IF Len(items) > 1 THEN <<", ">> ELSE <<>>)
         \o JsonItems(Tail(items))

JsonPairs(pairs) ==
  IF pairs = <<>> THEN <<>>
  ELSE <<"\"">> \o Escaped(Head(pairs)[1]) \o <<"\"", ": ">>
         \o json_dumps(Head(pairs)[2])
         \o (IF Len(pairs) > 1 THEN <<", ">> ELSE <<>>)
         \o JsonPairs(Tail(pairs))

RECURSIVE Join(_)
\* ','.join(items)
Join(items) ==
  IF items = <<>> THEN <<>>
  ELSE Head(items).v \o (IF Len(items) > 1 THEN <<",">> ELSE <<>>)
         \o Join(Tail(items))

\* A parameter dict is a function from the keys it has to their values.
NoParams == [k \in {} |-> PyNone]

\* params[key] = value
Put(params, key, value) ==
  [k \in DOMAIN params \cup {key} |-> IF k = key THEN value ELSE params[k]]

PutIf(cond, params, key, value) ==
  IF cond THEN Put(params, key, value) ELSE params

\* Line 293: the keys whose lists and dicts are JSON-encoded.
JsonKeys ==
  {"filtering", "time_range", "time_ranges", "effective_status",
   "special_ad_categories", "objective", "buyer_guarantee_agreement_status"}

\* Lines 297-304: the keys whose lists are joined with commas.
JoinedKeys ==
  {"fields", "action_attribution_windows", "action_breakdowns", "breakdowns"}

\* Lists left as they are under the joined keys: a plausible slip.
Encoded_unjoined(key, value) ==
  IF key \in JsonKeys /\ IsListOrDict(value) THEN Str(json_dumps(value))
  ELSE value

\* Lines 293-306: the value _prepare_params stores under key.
Encoded(key, value) ==
  IF key \in JsonKeys /\ IsListOrDict(value) THEN Str(json_dumps(value))
  ELSE IF key \in JoinedKeys /\ IsList(value) THEN Str(Join(value.v))
  ELSE value

\* _prepare_params testing `if value:` in place of `if value is not None:`,
\* so that empty strings and zero are dropped: a plausible slip.
prepare_params_falsy(base_params, kwargs) ==
  [k \in DOMAIN base_params \cup {x \in DOMAIN kwargs : Truthy(kwargs[x])} |->
     IF k \in DOMAIN kwargs /\ Truthy(kwargs[k])
       THEN Encoded(k, kwargs[k])
       ELSE base_params[k]]

\* _prepare_params: a copy of base_params with every keyword argument that
\* is not None.
prepare_params(base_params, kwargs) ==
  [k \in DOMAIN base_params \cup {x \in DOMAIN kwargs : ~IsNone(kwargs[x])} |->
     IF k \in DOMAIN kwargs /\ ~IsNone(kwargs[k])
       THEN Encoded(k, kwargs[k])
       ELSE base_params[k]]

\* Lines 371-386: the arguments _build_insights_params hands on.
PreparedKeys ==
  {"fields", "level", "action_attribution_windows", "action_breakdowns",
   "action_report_time", "breakdowns", "filtering", "sort", "limit",
   "after", "before", "offset", "locale"}

\* Line 389
time_params_provided(a) ==
  \/ Truthy(a["time_range"])
  \/ Truthy(a["time_ranges"])
  \/ Truthy(a["since"])
  \/ Truthy(a["until"])

\* date_preset emitted whatever time arguments were given: a plausible slip.
DatePreset_always(params, a) ==
  PutIf(Truthy(a["date_preset"]), params, "date_preset", a["date_preset"])

\* Lines 390-391
DatePreset(params, a) ==
  PutIf(~time_params_provided(a) /\ Truthy(a["date_preset"]),
        params, "date_preset", a["date_preset"])

\* Lines 392-393
TimeRange(params, a) ==
  PutIf(Truthy(a["time_range"]),
        params, "time_range", Str(json_dumps(a["time_range"])))

\* Lines 394-395
TimeRanges(params, a) ==
  PutIf(Truthy(a["time_ranges"]),
        params, "time_ranges", Str(json_dumps(a["time_ranges"])))

\* Lines 396-397
TimeIncrement(params, a) ==
  PutIf(Truthy(a["time_increment"]) /\ a["time_increment"] # Str(<<"all_days">>),
        params, "time_increment", a["time_increment"])

\* Lines 400-404
SinceUntil(params, a) ==
  IF Truthy(a["time_range"]) \/ Truthy(a["time_ranges"]) THEN params
  ELSE PutIf(Truthy(a["until"]),
             PutIf(Truthy(a["since"]), params, "since", a["since"]),
             "until", a["until"])

\* A flag written out when it is false as well: a plausible slip.
Flag_explicit(params, a, key) ==
  Put(params, key, IF Truthy(a[key]) THEN Str(<<"true">>) ELSE Str(<<"false">>))

\* Lines 407-413
Flag(params, a, key) == PutIf(Truthy(a[key]), params, key, Str(<<"true">>))

Flags(params, a) ==
  Flag(Flag(Flag(params, a, "default_summary"),
            a, "use_account_attribution_setting"),
       a, "use_unified_attribution_setting")

\* _build_insights_params, a being its keyword arguments.
build_insights_params(params, a) ==
  Flags(SinceUntil(TimeIncrement(TimeRanges(TimeRange(DatePreset(
          prepare_params(params, [k \in PreparedKeys |-> a[k]]),
        a), a), a), a), a), a)

\* The keyword arguments of the four insights tools.
InsightsArgs ==
  PreparedKeys \cup
  {"date_preset", "time_range", "time_ranges", "time_increment", "since",
   "until", "default_summary", "use_account_attribution_setting",
   "use_unified_attribution_setting"}

\* The defaults of the tools' signatures (lines 541-566, 727-751).
DefaultOf(tool, key) ==
  CASE key = "date_preset" -> Str(<<"last_30d">>)
    [] key = "time_increment" -> Str(<<"all_days">>)
    [] key = "level" /\ tool = "get_adaccount_insights" -> Str(<<"account">>)
    [] key \in {"default_summary", "use_account_attribution_setting"} -> PyFalse
    [] key = "use_unified_attribution_setting" -> PyTrue
    [] OTHER -> PyNone

\* The level an insights tool takes when it is given none (line 826).
OwnLevel(tool) ==
  CASE tool = "get_campaign_insights" -> Str(<<"campaign">>)
    [] tool = "get_adset_insights" -> Str(<<"adset">>)
    [] tool = "get_ad_insights" -> Str(<<"ad">>)
    [] OTHER -> PyNone

\* effective_level = level if level else 'campaign'; get_adaccount_insights
\* passes level on as it is.
EffectiveLevel(tool, level) ==
  IF tool # "get_adaccount_insights" /\ ~Truthy(level) THEN OwnLevel(tool)
  ELSE level

\* The arguments a tool passes to _build_insights_params when it was called
\* with the keyword arguments kw.
ArgsOf(tool, kw) ==
  [k \in InsightsArgs |->
     IF k = "level"
       THEN EffectiveLevel(tool, IF k \in DOMAIN kw THEN kw[k]
                                 ELSE DefaultOf(tool, k))
       ELSE IF k \in DOMAIN kw THEN kw[k] ELSE DefaultOf(tool, k)]

\* params = {'access_token': token}
TokenParams(token) ==
  IF token = Absent THEN NoParams ELSE Put(NoParams, "access_token", token)

\* ------------------------------------------------------------------------
\* Tool invocations
\* ------------------------------------------------------------------------

Procs == 1..NumProcs

\* Tools that take act_id, read the token, resolve the id and make one call.
AccountEdgeTools ==
  {"get_ads_by_adaccount", "get_adsets_by_adaccount",
   "get_campaigns_by_adaccount", "get_activities_by_adaccount"}

\* Tools that take act_id.
AccountTools ==
  AccountEdgeTools \cup {"get_adaccount_insights", "get_details_of_ad_account"}

\* Insights tools of one campaign, ad set or ad.
ObjectInsightsTools ==
  {"get_campaign_insights", "get_adset_insights", "get_ad_insights"}

\* Tools that walk paging.next themselves.
DrainingTools == {"get_adaccount_insights", "list_ad_accounts"}

\* One GET: the endpoint, the object the path names, the access_token
\* parameter (Absent when the call passes no parameters) and, for a
\* pagination fetch, the URL.  params is the dict an insights tool passes;
\* of the other tools' parameters only access_token is kept.
Req(kind, id, token, url) ==
  [kind |-> kind, id |-> id, token |-> token, url |-> url, params |-> NoParams]

\* An invocation slot.  pc is "idle", "me" (the call of line 222 is out),
\* "first" (the tool's own first call is out), "drain" (a pagination fetch is
\* out) or "done" (returned or raised).  arg is the act_id argument and name
\* the act_name argument, tok0 / acct0 the globals the invocation found, me
\* the body of its /me call, pages the bodies of its first call and of its
\* pagination fetches, kw the keyword arguments an insights tool was given.
Idle ==
  [pc    |-> "idle",   tool  |-> "",     arg   |-> PyNone, name |-> PyNone,
   me    |-> NoEnvelope,
   token |-> PyNone,   act   |-> <<>>,   reqs  |-> <<>>,
   pages |-> <<>>,     rows  |-> <<>>,   next  |-> PyNone,
   first |-> NoEnvelope, out |-> NoEnvelope, err |-> "",
   tok0  |-> PyNone,   acct0 |-> NoAccount, kw |-> NoParams]

\* The request as the tool r.tool sends it: the insights tools pass what
\* _build_insights_params made of {'access_token': token} (lines 677-703,
\* 825-851), _fetch_node what _prepare_params made of it (line 316).
Sent(r, req) ==
  IF req.kind \in {"insights", "object_insights"}
    THEN [req EXCEPT !.params =
            build_insights_params(TokenParams(req.token), ArgsOf(r.tool, r.kw))]
  ELSE IF r.tool = "_fetch_node"
    THEN [req EXCEPT !.params = prepare_params(TokenParams(req.token), r.kw)]
    ELSE req

Call(r, req, pc) == [r EXCEPT !.pc = pc, !.reqs = Append(@, Sent(r, req))]

Fail(r, err) == [r EXCEPT !.pc = "done", !.err = err]

Return(r, out) == [r EXCEPT !.pc = "done", !.out = out]

Out(g, r) == [g |-> g, r |-> r]

Commit(p, o) ==
  /\ SetGlobals(o.g)
  /\ inv' = [inv EXCEPT ![p] = o.r]
  /\ UNCHANGED <<environ, argv, served>>

Serving == served \in {"stdio", "http"}

Started(p, tool, act_id) ==
  [Idle EXCEPT !.tool = tool, !.arg = act_id,
               !.tok0 = FB_ACCESS_TOKEN, !.acct0 = DEFAULT_AD_ACCOUNT]

EndpointOf(tool) ==
  CASE tool = "get_adaccount_insights" -> "insights"
    [] tool = "get_details_of_ad_account" -> "node"
    [] tool \in ObjectInsightsTools -> "object_insights"
    [] OTHER -> "edge"

\* A tool building its parameters without the access token: a plausible
\* slip.
TokenCall_anon(r, t, kind, id) ==
  IF t.err # "" THEN Out(t.g, Fail(r, t.err))
  ELSE Out(t.g, Call([r EXCEPT !.token = t.val],
                     Req(kind, id, Absent, PyNone), "first"))

\* A call with the access token t returned, or the error t raised.
TokenCall(r, t, kind, id) ==
  IF t.err # "" THEN Out(t.g, Fail(r, t.err))
  ELSE Out(t.g, Call([r EXCEPT !.token = t.val],
                     Req(kind, id, t.val, PyNone), "first"))

\* The tool's own first call, once effective_act_id is known.
\* get_details_of_ad_account reads the token only now, in _fetch_node.
FirstCall(g, r) ==
  IF r.tool = "get_details_of_ad_account"
    THEN TokenCall(r, get_fb_access_token(g), "node", r.act)
    ELSE Out(g, Call(r, Req(EndpointOf(r.tool), r.act, r.token, PyNone), "first"))

\* Lines 452-453: the default account given with the token.
SeedDefault(g, act_id, act_name) ==
  IF Truthy(act_id) THEN Ret(set_default_ad_account(g, act_id, act_name).g, TRUE)
  ELSE Ret(g, TRUE)

\* set_access_token clearing nothing: a plausible slip.
set_access_token_keep(g, access_token, act_id, act_name) ==
  IF ~IsStr(access_token) \/ Strip(access_token.v) = <<>>
    THEN Exc(g, "ValueError")
    ELSE SeedDefault([g EXCEPT !.tok = Str(Strip(access_token.v))],
                     act_id, act_name)

\* set_access_token clearing the cached account before it looks at the
\* token: a plausible slip.
set_access_token_clear_first(g, access_token, act_id, act_name) ==
  IF ~IsStr(access_token) \/ Strip(access_token.v) = <<>>
    THEN Exc([g EXCEPT !.acct = NoAccount], "ValueError")
    ELSE SeedDefault([g EXCEPT !.tok = Str(Strip(access_token.v)),
                               !.acct = NoAccount],
                     act_id, act_name)

\* set_access_token, lines 444-463.
set_access_token(g, access_token, act_id, act_name) ==
  IF ~IsStr(access_token) \/ Strip(access_token.v) = <<>>
    THEN Exc(g, "ValueError")
    ELSE SeedDefault([g EXCEPT !.tok = Str(Strip(access_token.v)),
                               !.acct = NoAccount],
                     act_id, act_name)

\* The invocation ends with what the helper s raised, or returns.
Finished(r, s) ==
  Out(s.g, IF s.err # "" THEN Fail(r, s.err) ELSE Return(r, NoEnvelope))

\* The tool set_access_token, start to finish: it makes no call.
SetAccessToken(p, access_token, act_id, act_name) ==
  /\ Serving
  /\ inv[p].pc = "idle"
  /\ Commit(p, Finished([Started(p, "set_access_token", act_id)
                           EXCEPT !.token = access_token, !.name = act_name],
                        set_access_token(Globals, access_token, act_id, act_name)))

\* The tool goes on with the id s resolved: it raises, waits for the /me
\* body, or makes its own first call.
Resolved(r, s) ==
  IF s.err # "" THEN Out(s.g, Fail(r, s.err))
  ELSE IF s.call
    THEN Out(s.g, Call(r, Req("me_default", <<>>, s.token, PyNone), "me"))
    ELSE FirstCall(s.g, [r EXCEPT !.act = s.val])

\* Lines 674-675: t is what _get_fb_access_token left and returned.
ResolveWithToken(r, t) ==
  IF t.err # "" THEN Out(t.g, Fail(r, t.err))
  ELSE Resolved([r EXCEPT !.token = t.val], resolve_act_id_begin(t.g, r.arg))

\* A tool that takes act_id, up to its first remote call.
\* get_details_of_ad_account resolves the id before it reads the token; the
\* others read the token first.
BeginAccountTool(p, tool, act_id) ==
  /\ Serving
  /\ inv[p].pc = "idle"
  /\ Commit(p,
       IF tool = "get_details_of_ad_account"
         THEN Resolved(Started(p, tool, act_id),
                       resolve_act_id_begin(Globals, act_id))
         ELSE ResolveWithToken(Started(p, tool, act_id),
                               get_fb_access_token(Globals)))

\* The /me call of _get_default_ad_account returns its body.
MeReply(p, section) ==
  /\ inv[p].pc = "me"
  /\ Commit(p, Resolved([inv[p] EXCEPT !.me = section],
                         AsRes(resolve_act_id_end(Globals, section))))

\* _make_graph_api_call sending the request once more when it fails, before
\* it gives up: a plausible slip.
CallFails_retry(p) ==
  /\ inv[p].pc \in {"me", "first"}
  /\ inv[p].tool # "fetch_pagination_url"
  /\ Commit(p, Out(Globals,
       IF Len(inv[p].reqs) < 3
         THEN Call(inv[p], inv[p].reqs[Len(inv[p].reqs)], inv[p].pc)
         ELSE Fail(inv[p], "RequestException")))

\* A call through _make_graph_api_call fails: the exception is re-raised.
CallFails(p) ==
  /\ inv[p].pc \in {"me", "first"}
  /\ inv[p].tool # "fetch_pagination_url"
  /\ Commit(p, Out(Globals, Fail(inv[p], "RequestException")))

\* ------------------------------------------------------------------------
\* Pagination draining
\* ------------------------------------------------------------------------

\* The loop following paging.previous: a plausible slip.
NextUrlOf_previous(body) ==
  IF body.paging.t = "dict" THEN Get(body.paging.previous) ELSE PyNone

\* paging.next of a body, None when paging is no dict or has no next.
NextUrlOf(body) ==
  IF body.paging.t = "dict" THEN Get(body.paging.next) ELSE PyNone

\* Line 707: the rows the accumulator of get_adaccount_insights starts with.
InitialRows(body) == IF body.data.t = "list" THEN body.data.items ELSE <<>>

\* Lines 712-714 and 494-496: the rows a continuation page adds.
PageRows(page) == IF page.data.t = "list" THEN page.data.items ELSE <<>>

\* Lines 717-722 and 508-513 keeping the cursors of the first page: a
\* plausible slip.
Finalize_keep_paging(first, rows) == [first EXCEPT !.data = DataList(rows)]

\* Lines 717-722 and 508-513: the envelope returned once drained.
Finalize(first, rows) ==
  [first EXCEPT !.data = DataList(rows),
                !.paging = IF @.t = "dict"
                             THEN [@ EXCEPT !.next = Absent, !.previous = Absent]
                             ELSE @]

\* list_ad_accounts returning the accumulated records as they came: a
\* plausible slip.
Dedupe_none(accounts, seen_ids) == accounts

\* Lines 499-507: list_ad_accounts keeps the first record of each id.
RECURSIVE Dedupe(_, _)
Dedupe(accounts, seen_ids) ==
  IF accounts = <<>>
    THEN <<>>
    ELSE LET account == Head(accounts)
             account_id == IF account.t = "dict" THEN Get(account.id) ELSE PyNone
         IN IF Truthy(account_id) /\ account_id \in seen_ids
              THEN Dedupe(Tail(accounts), seen_ids)
              ELSE <<account>> \o
                   Dedupe(Tail(accounts),
                          IF Truthy(account_id) THEN seen_ids \cup {account_id}
                          ELSE seen_ids)

\* What a draining tool returns when no next URL is left.
Drained(r) ==
  Return(r, Finalize(r.first,
                     IF r.tool = "list_ad_accounts" THEN Dedupe(r.rows, {})
                     ELSE r.rows))

\* The while loop of lines 710 and 492 stopping after one fetch: a
\* plausible slip.
Loop_once(r) ==
  IF Truthy(r.next) /\ Len(r.pages) < 2
    THEN Call(r, Req("page", <<>>, Absent, r.next), "drain")
    ELSE Drained(r)

\* The head of the while loop of lines 710 and 492.
Loop(r) ==
  IF Truthy(r.next)
    THEN Call(r, Req("page", <<>>, Absent, r.next), "drain")
    ELSE Drained(r)

\* The campaign, ad set and ad insights tools return the body of their one
\* call; this variant drains it as get_adaccount_insights does.
ObjectInsightsReturn_drain(r, body) ==
  IF body.t # "dict" THEN Fail(r, "AttributeError")
  ELSE Loop([r EXCEPT !.first = body, !.rows = InitialRows(body),
                      !.next = NextUrlOf(body)])

\* Lines 853, 978 and 1112: return _make_graph_api_call(url, params).
ObjectInsightsReturn(r, body) == Return(r, body)

\* The tool's first call returns its body.  For list_ad_accounts, body is the
\* 'adaccounts' entry of the /me body; a 'data' that is no list is null or a
\* number, which list() rejects.
FirstReply(p, body) ==
  /\ inv[p].pc = "first"
  /\ LET r == [inv[p] EXCEPT !.pages = <<body>>]
     IN Commit(p, Out(Globals,
          CASE r.tool = "get_adaccount_insights" ->
                 IF body.t # "dict" THEN Fail(r, "AttributeError")
                 ELSE Loop([r EXCEPT !.first = body, !.rows = InitialRows(body),
                                     !.next = NextUrlOf(body)])
            [] r.tool = "list_ad_accounts" ->
                 IF body.t # "dict" THEN Return(r, body)
                 ELSE IF body.data.t = "other" THEN Fail(r, "TypeError")
                 ELSE Loop([r EXCEPT !.first = body, !.rows = body.data.items,
                                     !.next = NextUrlOf(body)])
            [] r.tool \in ObjectInsightsTools -> ObjectInsightsReturn(r, body)
            [] OTHER -> Return(r, body)))

\* A pagination fetch returns its body (lines 711-715 and 493-497).
DrainReply(p, page) ==
  /\ inv[p].pc = "drain"
  /\ LET r == [inv[p] EXCEPT !.pages = Append(@, page)]
     IN Commit(p, Out(Globals,
          IF page.t # "dict" THEN Fail(r, "AttributeError")
          ELSE Loop([r EXCEPT !.rows = @ \o PageRows(page),
                              !.next = NextUrlOf(page)])))

\* fetch_pagination_url failing inside a draining loop that swallows the
\* error and returns what it has so far: a plausible slip.
FetchFails_partial(p) ==
  /\ \/ inv[p].pc = "drain"
     \/ inv[p].pc = "first" /\ inv[p].tool = "fetch_pagination_url"
  /\ Commit(p, Out(Globals,
       IF inv[p].pc = "drain" THEN Drained(inv[p])
       ELSE Fail(inv[p], "HTTPError")))

\* fetch_pagination_url raises: nothing catches the HTTP or decoding error.
FetchFails(p) ==
  /\ \/ inv[p].pc = "drain"
     \/ inv[p].pc = "first" /\ inv[p].tool = "fetch_pagination_url"
  /\ Commit(p, Out(Globals, Fail(inv[p], "HTTPError")))

\* ------------------------------------------------------------------------
\* The other tools, the transport and the main block
\* ------------------------------------------------------------------------

\* list_ad_accounts, lines 477-483.
BeginListAdAccounts(p) ==
  /\ Serving
  /\ inv[p].pc = "idle"
  /\ Commit(p, TokenCall(Started(p, "list_ad_accounts", PyNone),
                          get_fb_access_token(Globals), "me_accounts", <<>>))

\* get_campaign_insights, get_adset_insights, get_ad_insights: id is the
\* campaign, ad set or ad.
ObjectInsights(p, tool, id, kw) ==
  /\ Serving
  /\ inv[p].pc = "idle"
  /\ Commit(p, TokenCall([Started(p, tool, PyNone) EXCEPT !.kw = kw],
                          get_fb_access_token(Globals), "object_insights", id))

\* The same tools called with the id alone.
BeginObjectInsights(p, tool, id) == ObjectInsights(p, tool, id, NoParams)

\* _fetch_node(node_id, **kwargs), lines 312-317.
FetchNode(p, node_id, kwargs) ==
  /\ Serving
  /\ inv[p].pc = "idle"
  /\ Commit(p, TokenCall([Started(p, "_fetch_node", PyNone) EXCEPT !.kw = kwargs],
                          get_fb_access_token(Globals), "node", node_id))

\* The tool fetch_pagination_url: requests.get(url), no parameters.
BeginFetchPaginationUrl(p, url) ==
  /\ Serving
  /\ inv[p].pc = "idle"
  /\ Commit(p, Out(Globals,
       Call(Started(p, "fetch_pagination_url", PyNone),
            Req("page", <<>>, Absent, url), "first")))

\* The caller has the result; the slot is free again.
Ack(p) ==
  /\ inv[p].pc = "done"
  /\ inv' = [inv EXCEPT ![p] = Idle]
  /\ UNCHANGED <<FB_ACCESS_TOKEN, DEFAULT_AD_ACCOUNT, CONFIG_CACHE,
                 CONFIG_LOAD_ERROR_LOGGED, environ, argv, served, parses>>

\* The __main__ block with PORT set: _create_http_app primes the token.
StartHttp ==
  /\ served = "start"
  /\ environ.PORT
  /\ SetGlobals(ensure_fb_token_from_config(Globals).g)
  /\ served' = "http"
  /\ UNCHANGED <<environ, argv, inv>>

\* Line 2662: mcp.run is reached unless _get_fb_access_token raised.
StdioStarted(t) ==
  /\ SetGlobals(t.g)
  /\ served' = IF t.err # "" THEN "exit" ELSE "stdio"

\* The __main__ block without PORT: _get_fb_access_token() before mcp.run;
\* when it raises, the process ends.
StartStdio ==
  /\ served = "start"
  /\ ~environ.PORT
  /\ StdioStarted(get_fb_access_token(Globals))
  /\ UNCHANGED <<environ, argv, inv>>

\* The ensure_config middleware, before each HTTP request.
EnsureConfig ==
  /\ served = "http"
  /\ SetGlobals(ensure_fb_token_from_config(Globals).g)
  /\ UNCHANGED <<environ, argv, served, inv>>

\* ------------------------------------------------------------------------
\* Inputs
\* ------------------------------------------------------------------------

Prog == <<"server.py">>

T1 == <<"T1">>

T2 == <<"T2">>

\* access_token arguments of set_access_token.
TokenArgs ==
  {Str(T1), Str(<<" ">> \o T2 \o <<" ">>), Str(<<" ">>), Str(<<>>), Num(<<"7">>)}

\* act_id arguments.
ActIdArgs ==
  {PyNone, Str(<<>>), Str(<<" ">>), Str(<<"1">>),
   Str(<<" ">> \o ACT \o <<"2", " ">>)}

\* act_name arguments.
ActNameArgs == {PyNone, Str(<<" ", "N", " ">>), Str(<<" ">>)}

\* The act_id tools invoked: one of each order of reading the token and
\* resolving the id, with and without draining.
ToolsTried ==
  {"get_adaccount_insights", "get_details_of_ad_account",
   "get_campaigns_by_adaccount"}

\* MCP_CONFIG values.
McpConfigs ==
  {RawUnset,
   RawMalformed,
   RawJson(NullConfig),
   RawJson(Config(With1("fbToken", Str(<<"TC">>)), NoMapping)),
   RawJson(Config(With2("fbToken", Num(<<"7">>), "actId", Str(<<" ">>)),
                  Mapping(With2("facebook_ad_account_id", Str(ACT \o <<"5">>),
                                "actName", Str(<<"N5", " ">>))))),
   RawJson(Config(With2("actId", Str(<<" ", "4">>), "defaultActId", Str(<<>>)),
                  NoMapping))}

\* FB_DEFAULT_ACT_ID / FB_DEFAULT_ACT_NAME values.
EnvAccounts ==
  {[id |-> PyNone, name |-> PyNone],
   [id |-> Str(<<"3", " ">>), name |-> Str(<<"N3">>)],
   [id |-> Str(<<" ">>), name |-> Str(<<"N3">>)]}

\* Command lines.
Argvs ==
  {<<Prog>>,
   <<Prog, FlagToken, <<"TA">>>>,
   <<Prog, FlagToken, <<>>>>,
   <<Prog, FlagToken>>,
   <<Prog, FlagToken, <<"TA">>, FlagActId, <<"6">>, FlagActName, <<"N6">>>>,
   <<Prog, FlagToken, <<"TA">>, FlagActId, <<" ">>>>,
   <<Prog, FlagActName, <<"N6">>, FlagToken, <<"TA">>, FlagActId>>}

Environments ==
  {[MCP_CONFIG |-> c, FB_DEFAULT_ACT_ID |-> e.id, FB_DEFAULT_ACT_NAME |-> e.name,
    PORT |-> port] : c \in McpConfigs, e \in EnvAccounts, port \in BOOLEAN}

RowA == Row(Str(ACT \o <<"8">>), Str(<<"8">>), Str(<<"A">>))

RowB == Row(Str(ACT \o <<"9">>), Str(<<"9">>), Absent)

\* Bodies of the /me call of _get_default_ad_account ('adaccounts' entry).
MeSections ==
  {NoEnvelope,
   OtherEnvelope,
   Envelope(DataMissing, PagingMissing),
   Envelope(DataList(<<>>), PagingMissing),
   Envelope(DataList(<<NotARow>>), PagingMissing),
   Envelope(DataList(<<RowA, RowB>>), PagingMissing),
   Envelope(DataList(<<Row(Absent, Num(<<"9">>), Absent)>>), PagingMissing),
   Envelope(DataList(<<Row(Str(<<" ">>), Absent, Absent)>>), PagingMissing),
   Envelope(DataList(<<Row(Str(<<>>), Absent, Str(<<"A">>))>>), PagingMissing)}

U1 == Str(<<"https://next/1">>)

U2 == Str(<<"https://next/2">>)

\* Bodies served to the tools of the main specification.
Bodies ==
  {Envelope(DataList(<<RowA>>), Paging(U1, Absent)),
   Envelope(DataList(<<RowB>>), Paging(Absent, U2)),
   Envelope(DataMissing, PagingMissing)}

\* ------------------------------------------------------------------------
\* Specifications
\* ------------------------------------------------------------------------

\* The module globals after import, in each environment.
InitIn(envs, args) ==
  /\ FB_ACCESS_TOKEN = PyNone
  /\ DEFAULT_AD_ACCOUNT = NoAccount
  /\ CONFIG_CACHE = NullConfig
  /\ CONFIG_LOAD_ERROR_LOGGED = FALSE
  /\ environ \in envs
  /\ argv \in args
  /\ served = "start"
  /\ parses = 0
  /\ inv = [p \in Procs |-> Idle]

Init == InitIn(Environments, Argvs)

\* The remote serves chains of at most MaxPages pages.
ChainOk(p, body) ==
  Truthy(NextUrlOf(body)) => Len(inv[p].pages) + 1 < MaxPages

\* No invocation is running: the server is between two requests.
Quiet == \A p \in Procs : inv[p].pc \in {"idle", "done"}

\* Tool invocations run one at a time, start to finish (slot 1); the
\* middleware runs between them.
Next ==
  \/ StartHttp
  \/ StartStdio
  \/ Quiet /\ EnsureConfig
  \/ \E a \in TokenArgs, i \in ActIdArgs, n \in ActNameArgs :
       SetAccessToken(1, a, i, n)
  \/ \E tool \in ToolsTried, i \in ActIdArgs : BeginAccountTool(1, tool, i)
  \/ \E section \in MeSections : MeReply(1, section)
  \/ CallFails(1)
  \/ BeginListAdAccounts(1)
  \/ \E tool \in ObjectInsightsTools : BeginObjectInsights(1, tool, <<"123">>)
  \/ BeginFetchPaginationUrl(1, U1)
  \/ \E body \in Bodies : ChainOk(1, body) /\ FirstReply(1, body)
  \/ \E page \in Bodies : ChainOk(1, page) /\ DrainReply(1, page)
  \/ FetchFails(1)
  \/ Ack(1)

Spec == Init /\ [][Next]_vars

\* Pagination on its own: one environment, the token on the command line,
\* and every shape of body.
DrainEnvironments ==
  {[MCP_CONFIG |-> RawUnset, FB_DEFAULT_ACT_ID |-> PyNone,
    FB_DEFAULT_ACT_NAME |-> PyNone, PORT |-> FALSE]}

DrainArgvs == {<<Prog, FlagToken, <<"TA">>>>}

DataShapes ==
  {DataList(<<>>), DataList(<<RowA>>), DataList(<<RowB, RowA>>),
   DataList(<<NotARow, Row(Absent, Absent, Absent)>>), DataMissing, DataOther}

PagingShapes ==
  {PagingMissing, PagingOther, Paging(Absent, Absent), Paging(PyNone, U2),
   Paging(Str(<<>>), Absent), Paging(U1, Absent), Paging(U2, U1)}

DrainBodies ==
  {Envelope(d, g) : d \in DataShapes, g \in PagingShapes}
    \cup {NoEnvelope, OtherEnvelope}

InitDrain == InitIn(DrainEnvironments, DrainArgvs)

NextDrain ==
  \/ StartStdio
  \/ BeginAccountTool(1, "get_adaccount_insights", Str(<<"1">>))
  \/ BeginListAdAccounts(1)
  \/ BeginFetchPaginationUrl(1, U1)
  \/ CallFails(1)
  \/ \E body \in DrainBodies : ChainOk(1, body) /\ FirstReply(1, body)
  \/ \E page \in DrainBodies : ChainOk(1, page) /\ DrainReply(1, page)
  \/ FetchFails(1)
  \/ Ack(1)

SpecDrain == InitDrain /\ [][NextDrain]_vars

\* Pages that differ in their paging only: what the loops of lines 492-497
\* and 710-715 test.
ChainBodies ==
  {Envelope(DataList(<<RowA>>), g) : g \in PagingShapes}
    \cup {NoEnvelope, OtherEnvelope}

NextChain ==
  \/ StartStdio
  \/ BeginAccountTool(1, "get_adaccount_insights", Str(<<"1">>))
  \/ BeginListAdAccounts(1)
  \/ CallFails(1)
  \/ \E body \in ChainBodies : ChainOk(1, body) /\ FirstReply(1, body)
  \/ \E page \in ChainBodies : ChainOk(1, page) /\ DrainReply(1, page)
  \/ FetchFails(1)
  \/ Ack(1)

\* Every continuation fetch completes: the remote answers it or it fails.
FetchCompletes ==
  \/ \E page \in ChainBodies : ChainOk(1, page) /\ DrainReply(1, page)
  \/ FetchFails(1)

\* Pagination with every fetch completing.
SpecDrainLive == InitDrain /\ [][NextChain]_vars /\ WF_vars(FetchCompletes)

\* Invocations served concurrently: each runs from one remote call to the
\* next while the others wait for theirs.
ConcEnvironments ==
  {[MCP_CONFIG |-> RawUnset, FB_DEFAULT_ACT_ID |-> PyNone,
    FB_DEFAULT_ACT_NAME |-> PyNone, PORT |-> TRUE]}

ConcArgvs == {<<Prog>>}

ConcTokens == {Str(T1), Str(T2)}

ConcActIds == {PyNone, Str(<<"1">>)}

ConcSections ==
  {Envelope(DataList(<<>>), PagingMissing),
   Envelope(DataList(<<RowA>>), PagingMissing)}

ConcBodies == {Envelope(DataList(<<RowB>>), PagingMissing)}

InitConc == InitIn(ConcEnvironments, ConcArgvs)

NextConc ==
  \/ StartHttp
  \/ EnsureConfig
  \/ \E p \in Procs, a \in ConcTokens, i \in ConcActIds :
       SetAccessToken(p, a, i, PyNone)
  \/ \E p \in Procs, tool \in ToolsTried : BeginAccountTool(p, tool, PyNone)
  \/ \E p \in Procs, section \in ConcSections : MeReply(p, section)
  \/ \E p \in Procs : CallFails(p)
  \/ \E p \in Procs, body \in ConcBodies : FirstReply(p, body)
  \/ \E p \in Procs : Ack(p)

SpecConc == InitConc /\ [][NextConc]_vars

\* The insights parameters on their own: the token on the command line, and
\* the object insights tools called with every combination of the keyword
\* arguments below.  Absent stands for an argument the caller leaves out.
Range1 ==
  Dict(<< << <<"since">>, Str(<<"2024-01-01">>) >>,
          << <<"until">>, Str(<<"2024-01-31">>) >> >>)

Range2 ==
  Dict(<< << <<"since">>, Str(<<"2024-02-01">>) >>,
          << <<"until">>, Str(<<"2024-02-29">>) >> >>)

KwChoices ==
  [time_range : {Absent, Dict(<<>>), Range1},
   time_ranges : {Absent, List(<<>>), List(<<Range1, Range2>>)},
   since : {Absent, Str(<<>>), Str(<<"2024-03-01">>)},
   until : {Absent, Str(<<"2024-03-31">>)},
   date_preset : {Absent, PyNone, Str(<<"last_7d">>)},
   time_increment : {Absent, Str(<<"7">>)},
   level : {Absent, Str(<<"ad">>)},
   action_breakdowns :
     {Absent, List(<<Str(<<"action_type">>), Str(<<"action_device">>)>>)},
   breakdowns : {Absent, List(<<Str(<<"age">>), Str(<<"gender">>)>>)},
   use_unified_attribution_setting : {Absent, PyFalse}]

\* The three boolean flags, given as True, given as False or left out.
FlagChoices ==
  [default_summary : {Absent, PyTrue, PyFalse},
   use_account_attribution_setting : {Absent, PyTrue, PyFalse},
   use_unified_attribution_setting : {Absent, PyTrue, PyFalse}]

\* Arguments of the insights tools that go through _prepare_params.
PreparedChoices ==
  [fields : {Absent, List(<<>>), List(<<Str(<<"spend">>), Str(<<"clicks">>)>>)},
   filtering :
     {Absent,
      List(<<Dict(<< << <<"field">>, Str(<<"spend">>) >>,
                     << <<"value">>, Num(<<"0">>) >> >>)>>)},
   sort : {Absent, PyNone, Str(<<>>)},
   limit : {Absent, Num(<<"0">>), Num(<<"25">>)},
   date_preset : {Absent, PyNone},
   level : {Absent, PyNone}]

\* Keyword arguments of _fetch_node: lists, mappings, strings and numbers
\* under joined keys, JSON keys and other keys.
NodeKwargs ==
  [fields :
     {Absent, PyNone, List(<<>>), List(<<Str(<<"id">>), Str(<<"name">>)>>),
      Str(<<"id,name">>)},
   effective_status :
     {PyNone, List(<<Str(<<"ACTIVE">>), Str(<<"PAU", "\"", "SED", "\\">>)>>),
      Str(<<"ACTIVE">>)},
   time_range : {PyNone, Dict(<<>>), Range1},
   filtering :
     {PyNone,
      List(<<Dict(<< << <<"field">>, Str(<<"spend">>) >>,
                     << <<"value">>, List(<<Num(<<"0">>), PyNone, PyTrue>>) >> >>)>>)},
   limit : {PyNone, Num(<<"0">>), Num(<<"25">>)},
   sort : {PyNone, Str(<<>>), Str(<<"spend">>)},
   ids : {PyNone, List(<<Str(<<"1">>), Str(<<"2">>)>>)}]

\* The keyword arguments of one call: the arguments the caller gives.
KwOf(choice) ==
  [k \in {x \in DOMAIN choice : choice[x] # Absent} |-> choice[k]]

ParamBodies == {Envelope(DataList(<<RowA>>), Paging(U1, Absent))}

InitParams == InitIn(DrainEnvironments, DrainArgvs)

NextParams ==
  \/ StartStdio
  \/ /\ inv[1].pc = "idle"
     /\ \E tool \in ObjectInsightsTools,
             choice \in KwChoices \cup FlagChoices \cup PreparedChoices :
          ObjectInsights(1, tool, <<"123">>, KwOf(choice))
  \/ /\ inv[1].pc = "idle"
     /\ \E kwargs \in NodeKwargs : FetchNode(1, <<"123">>, KwOf(kwargs))
  \/ CallFails(1)
  \/ \E body \in ParamBodies : FirstReply(1, body)
  \/ Ack(1)

SpecParams == InitParams /\ [][NextParams]_vars

\* Account ids on their own: the token on the command line, and the act_id
\* tools and set_access_token called with ids in every form, the forms that
\* normalization produces among them.
IdArgs ==
  {PyNone, Str(<<>>), Str(<<" ">>), Str(<<" ", "\t">>),
   Str(<<"1">>), Str(<<" ", "1", " ">>), Str(ACT \o <<"1">>),
   Str(ACT \o <<"2">>), Str(ACT \o <<"2", " ">>), Str(<<"\t">> \o ACT \o <<"2">>),
   Str(ACT), Str(ACT \o ACT \o <<"3">>), Str(<<"A", "C", "T", "_", "4">>),
   Str(<<"a", "c", "t", "5">>), Str(ACT \o <<" ", "6">>), Num(<<"7">>)}

InitIds == InitIn(DrainEnvironments, DrainArgvs)

NextIds ==
  \/ StartStdio
  \/ /\ inv[1].pc = "idle"
     /\ \E tool \in ToolsTried, i \in IdArgs : BeginAccountTool(1, tool, i)
  \/ /\ inv[1].pc = "idle"
     /\ \E i \in IdArgs : SetAccessToken(1, Str(T1), i, PyNone)
  \/ \E section \in ConcSections : MeReply(1, section)
  \/ CallFails(1)
  \/ \E body \in ConcBodies : FirstReply(1, body)
  \/ Ack(1)

SpecIds == InitIds /\ [][NextIds]_vars

\* ------------------------------------------------------------------------
\* Properties
\* ------------------------------------------------------------------------

\* The body carries a paging.next URL.
HasNext(body) ==
  body.paging.t = "dict" /\ body.paging.next.t = "str" /\ body.paging.next.v # <<>>

\* The rows of a body's data array (none when data is no array).
DataOf(body) == IF body.data.t = "list" THEN body.data.items ELSE <<>>

RECURSIVE RowsOfPages(_)
RowsOfPages(pages) ==
  IF pages = <<>> THEN <<>> ELSE DataOf(Head(pages)) \o RowsOfPages(Tail(pages))

Last(seq) == seq[Len(seq)]

Returned(r, tools) == r.pc = "done" /\ r.err = "" /\ r.tool \in tools

\* The requests of an invocation that name an ad account in their path.
AccountReqs(r) ==
  {i \in 1..Len(r.reqs) : r.reqs[i].kind \in {"insights", "node", "edge"}}

\* The requests of the tool itself: all but the /me call of the default
\* account resolution.
OwnReqs(r) == SelectSeq(r.reqs, LAMBDA q : q.kind # "me_default")

\* The requests of an invocation that carry an access_token parameter.
TokenReqs(r) == {i \in 1..Len(r.reqs) : r.reqs[i].token # Absent}

AskedMe(r) == \E i \in 1..Len(r.reqs) : r.reqs[i].kind = "me_default"

\* The act_-prefixed form of a trimmed id.
Prefixed(id) == IF StartsWithAct(id) THEN id ELSE ACT \o id

\* C1: get_adaccount_insights, when it returns, has fetched the chain to its
\* end, each page from the next URL of the one before, and returns one
\* envelope whose data is the data of all pages in fetch order and whose
\* paging has neither a next nor a previous key.
C1_FullDrain ==
  \A p \in Procs :
    LET r == inv[p]
    IN Returned(r, {"get_adaccount_insights"}) =>
         /\ Len(OwnReqs(r)) = Len(r.pages)
         /\ \A k \in 1..(Len(r.pages) - 1) :
              /\ HasNext(r.pages[k])
              /\ OwnReqs(r)[k + 1].kind = "page"
              /\ OwnReqs(r)[k + 1].url = r.pages[k].paging.next
         /\ ~HasNext(Last(r.pages))
         /\ r.out.t = "dict"
         /\ r.out.data = DataList(RowsOfPages(r.pages))
         /\ r.out.paging.next = Absent
         /\ r.out.paging.previous = Absent

\* C1 witness: a three-page chain whose first page carried next and
\* previous has been drained into one envelope of at least three rows.
C1_Witness ==
  \E p \in Procs :
    /\ Returned(inv[p], {"get_adaccount_insights"})
    /\ Len(inv[p].pages) = 3
    /\ inv[p].pages[1].paging = Paging(U2, U1)
    /\ Len(inv[p].out.data.items) >= 3
    /\ inv[p].out.data.items[1] # Last(inv[p].out.data.items)

\* C2 as stated: every insights tool returns an envelope that carries no
\* paging.next, having fetched until none remained.
C2_EveryInsightsToolDrains ==
  \A p \in Procs :
    Returned(inv[p], {"get_adaccount_insights"} \cup ObjectInsightsTools) =>
      /\ ~HasNext(inv[p].out)
      /\ ~HasNext(Last(inv[p].pages))

\* C2 amended: get_adaccount_insights fetches until no paging.next remains
\* and returns an envelope without one; get_campaign_insights,
\* get_adset_insights and get_ad_insights make exactly one request and
\* return its body unchanged, paging.next included.
C2_OnlyAccountInsightsDrains ==
  \A p \in Procs :
    LET r == inv[p]
    IN /\ Returned(r, {"get_adaccount_insights"}) =>
            /\ ~HasNext(r.out)
            /\ ~HasNext(Last(r.pages))
            /\ Len(OwnReqs(r)) = Len(r.pages)
       /\ Returned(r, ObjectInsightsTools) =>
            /\ Len(r.reqs) = 1
            /\ r.reqs[1].kind = "object_insights"
            /\ r.out = r.pages[1]

\* C2 witness: get_campaign_insights has returned a first page that still
\* carries paging.next.
C2_Witness ==
  \E p \in Procs :
    /\ Returned(inv[p], {"get_campaign_insights"})
    /\ HasNext(inv[p].out)

\* The id that a /me body yields: the trimmed id of its first account, or
\* one built from account_id; empty when it yields none.
YieldedId(section) ==
  IF section.t = "dict" /\ section.data.t = "list" /\ section.data.items # <<>>
     /\ section.data.items[1].t = "dict"
    THEN LET a == section.data.items[1]
         IN IF a.id.t \in {"str", "int"} /\ a.id.v # <<>>
              THEN (IF Strip(a.id.v) = <<>> THEN <<>> ELSE Prefixed(Strip(a.id.v)))
              ELSE IF a.account_id.t \in {"str", "int"} /\ a.account_id.v # <<>>
                THEN Prefixed(Strip(Prefixed(a.account_id.v)))
                ELSE <<>>
    ELSE <<>>

\* What MCP_CONFIG holds once parsed: text that is unset, empty or no JSON
\* counts as an empty document.
ParsedConfig ==
  IF environ.MCP_CONFIG.kind = "json" THEN environ.MCP_CONFIG.doc ELSE EmptyConfig

\* The id each configuration source yields, None when it yields none.
ConfigId == CandidateFromConfig(ParsedConfig).id

EnvId ==
  IF IsStr(environ.FB_DEFAULT_ACT_ID) /\ Strip(environ.FB_DEFAULT_ACT_ID.v) # <<>>
    THEN environ.FB_DEFAULT_ACT_ID ELSE PyNone

CliId ==
  IF \E i \in 1..(Len(argv) - 1) :
       /\ argv[i] = FlagActId
       /\ \A j \in 1..(i - 1) : argv[j] # FlagActId
       /\ Strip(argv[i + 1]) # <<>>
    THEN Str(argv[1 + CHOOSE i \in 1..Len(argv) :
                    argv[i] = FlagActId /\ \A j \in 1..(i - 1) : argv[j] # FlagActId])
    ELSE PyNone

\* The id of the first source that yields one, in the order MCP_CONFIG,
\* FB_DEFAULT_ACT_ID, --default-act-id; empty when none does.
SourceId ==
  LET first == IF ~IsNone(ConfigId) THEN ConfigId
               ELSE IF ~IsNone(EnvId) THEN EnvId ELSE CliId
  IN IF IsNone(first) THEN <<>> ELSE Prefixed(Strip(first.v))

\* C3 as stated: an invocation in flight is not affected by the
\* set_access_token calls and default-account resolutions of the others: all
\* its requests carry one access token, and with no act_id given it queries
\* the account it found cached when it started, else the one the
\* configuration yields, else the one its own /me body yields.
C3_NoInterference ==
  \A p \in Procs :
    LET r == inv[p]
    IN (r.pc # "idle" /\ r.tool \in AccountTools /\ ~Truthy(r.arg)) =>
         /\ \A i, j \in TokenReqs(r) : r.reqs[i].token = r.reqs[j].token
         /\ \A i \in AccountReqs(r) :
              r.reqs[i].id = IF AskedMe(r) THEN YieldedId(r.me)
                             ELSE IF r.acct0.t = "dict" THEN r.acct0.id
                             ELSE SourceId

\* An invocation that resolves the default account: no act_id is given.
Defaulting(r) == r.pc # "idle" /\ r.tool \in AccountTools /\ ~Truthy(r.arg)

\* A call of set_access_token that has returned.
TokenSet(r) == Returned(r, {"set_access_token"})

\* The cache, once populated, changes only in a call of set_access_token.
CacheKept ==
  [][(DEFAULT_AD_ACCOUNT.t = "dict" /\ DEFAULT_AD_ACCOUNT' # DEFAULT_AD_ACCOUNT)
       => \E p \in Procs : inv[p].pc = "idle" /\ inv'[p].tool = "set_access_token"]_vars

\* A resolution that finds the cache populated asks nothing of the remote,
\* does not fail, leaves the cache as it is and uses the cached id.
CacheHit ==
  \A p \in Procs :
    LET r == inv[p]
    IN (Defaulting(r) /\ r.acct0.t = "dict") =>
         /\ ~AskedMe(r)
         /\ r.err # "ValueError"
         /\ DEFAULT_AD_ACCOUNT = r.acct0
         /\ \A i \in AccountReqs(r) : r.reqs[i].id = r.acct0.id

\* C4: once the default account is cached (by a remote resolution or
\* otherwise), the cache keeps its value until set_access_token is called,
\* and every resolution with no explicit id that finds it makes no remote
\* resolution call and uses the cached id.
C4_CachedResolution == []CacheHit /\ CacheKept

\* C4 witness: a resolution with no act_id has used the account that an
\* earlier remote resolution cached (only /me bodies name an account "A").
C4_Witness ==
  \E p \in Procs :
    /\ Defaulting(inv[p])
    /\ inv[p].acct0 = Account(ACT \o <<"8">>, TRUE, Str(<<"A">>))
    /\ AccountReqs(inv[p]) # {}
    /\ inv[p].pc = "done"

\* C5: when set_access_token returns and no act_id was given, nothing is
\* cached, whatever was cached before; and a resolution that finds nothing
\* cached takes the id from the configuration or from a /me call of its own.
C5_TokenSetClearsCache ==
  \A p \in Procs :
    LET r == inv[p]
    IN /\ (TokenSet(r) /\ ~Truthy(r.arg)) => DEFAULT_AD_ACCOUNT = NoAccount
       /\ (Defaulting(r) /\ r.acct0.t = "none") =>
            \A i \in AccountReqs(r) :
              r.reqs[i].id = IF AskedMe(r) THEN YieldedId(r.me) ELSE SourceId

\* C5 witness: set_access_token without act_id has returned, an account was
\* cached before the call and none is now.
C5_Witness ==
  \E p \in Procs :
    /\ TokenSet(inv[p])
    /\ ~Truthy(inv[p].arg)
    /\ inv[p].acct0.t = "dict"
    /\ DEFAULT_AD_ACCOUNT = NoAccount

\* The act_id given is a string that is not blank.
NonBlank(x) == IsStr(x) /\ Strip(x.v) # <<>>

\* C6: when set_access_token returns and a non-blank act_id was given, it
\* has made no request and the cache holds the trimmed, act_-prefixed act_id,
\* with the trimmed act_name when a non-blank one was given and no name
\* otherwise; a resolution that finds the cache populated makes no remote
\* resolution call and uses the cached id.
C6_SeededCache ==
  /\ \A p \in Procs :
       LET r == inv[p]
       IN (TokenSet(r) /\ NonBlank(r.arg)) =>
            /\ r.reqs = <<>>
            /\ DEFAULT_AD_ACCOUNT.t = "dict"
            /\ DEFAULT_AD_ACCOUNT.id = Prefixed(Strip(r.arg.v))
            /\ DEFAULT_AD_ACCOUNT.named = NonBlank(r.name)
            /\ NonBlank(r.name) => DEFAULT_AD_ACCOUNT.name = Str(Strip(r.name.v))
  /\ CacheHit

\* C6 witness: set_access_token has seeded the cache from an act_id and an
\* act_name that both needed trimming, and the id needed no prefix.
C6_Witness ==
  \E p \in Procs :
    /\ TokenSet(inv[p])
    /\ inv[p].arg = Str(<<" ">> \o ACT \o <<"2", " ">>)
    /\ DEFAULT_AD_ACCOUNT = Account(ACT \o <<"2">>, TRUE, Str(<<"N">>))

\* C7: whenever the default ad account is cached, its id starts with act_.
C7_CachedIdPrefixed ==
  DEFAULT_AD_ACCOUNT.t = "dict" => StartsWithAct(DEFAULT_AD_ACCOUNT.id)

\* C7 witness: the cache holds an id that --default-act-id gave without the
\* prefix.
C7_Witness ==
  /\ DEFAULT_AD_ACCOUNT.t = "dict"
  /\ DEFAULT_AD_ACCOUNT.id = ACT \o <<"6">>
  /\ CliId = Str(<<"6">>)

\* C8 as stated: the stored access token is unset or a non-empty string.
C8_TokenNonEmptyString ==
  IsNone(FB_ACCESS_TOKEN) \/ (IsStr(FB_ACCESS_TOKEN) /\ FB_ACCESS_TOKEN.v # <<>>)

\* Some configuration source yields an id.
SourcesYield == SourceId # <<>>

\* C9: a resolution with no explicit id that finds nothing cached uses the
\* id of the first source that yields one, in the order MCP_CONFIG,
\* FB_DEFAULT_ACT_ID, --default-act-id, and asks the remote only when none
\* of the three yields an id; then it uses the id the /me body yields.
C9_SourcePriority ==
  \A p \in Procs :
    LET r == inv[p]
    IN (Defaulting(r) /\ r.acct0.t = "none") =>
         /\ AskedMe(r) => ~SourcesYield
         /\ \A i \in AccountReqs(r) :
              /\ r.reqs[i].id # <<>>
              /\ r.reqs[i].id = IF SourcesYield THEN SourceId ELSE YieldedId(r.me)
         /\ (AccountReqs(r) # {} /\ ~SourcesYield) => AskedMe(r)

\* C9 witness: MCP_CONFIG yields no id (a blank one only), the environment
\* and the command line both yield one, and the environment's is used.
C9_Witness ==
  \E p \in Procs :
    /\ Defaulting(inv[p])
    /\ inv[p].acct0.t = "none"
    /\ IsNone(ConfigId) /\ ~IsNone(EnvId) /\ ~IsNone(CliId)
    /\ \E i \in AccountReqs(inv[p]) : inv[p].reqs[i].id = ACT \o <<"3">>

\* C9 second witness: no source yields an id and the remote was asked.
C9_RemoteWitness ==
  \E p \in Procs :
    /\ Defaulting(inv[p])
    /\ ~SourcesYield
    /\ AskedMe(inv[p])
    /\ AccountReqs(inv[p]) # {}

\* C10: a resolution with no explicit id that finds nothing cached, gets no
\* id from the configuration and none from the remote ends in an error and
\* makes no request that names an ad account; no request ever names an
\* empty id.
C10_NoAccountNoRequest ==
  \A p \in Procs :
    LET r == inv[p]
    IN Defaulting(r) =>
         /\ \A i \in AccountReqs(r) : r.reqs[i].id # <<>> /\ r.reqs[i].id # ACT
         /\ (r.acct0.t = "none" /\ ~SourcesYield /\ YieldedId(r.me) = <<>>) =>
              /\ AccountReqs(r) = {}
              /\ r.pc = "done" => r.err # ""

\* C10 witness: the /me body named no ad account and the tool raised
\* without a request of its own.
C10_Witness ==
  \E p \in Procs :
    /\ Defaulting(inv[p])
    /\ inv[p].pc = "done"
    /\ inv[p].me = Envelope(DataList(<<>>), PagingMissing)
    /\ inv[p].err = "ValueError"
    /\ Len(inv[p].reqs) = 1


\* The last request the tool itself made got no body: it failed.
Unanswered(r) == Len(OwnReqs(r)) > Len(r.pages)

\* The invocation drains pages and is past its first page.
Draining(r) == r.tool \in DrainingTools /\ Len(r.pages) >= 1

\* C11: a draining tool whose continuation fetch failed, or brought a body
\* that is no JSON object, ends with an error and returns no envelope,
\* whatever rows it had accumulated; and a draining tool that returns an
\* envelope has had every one of its requests answered.
C11_NoPartialResult ==
  \A p \in Procs :
    LET r == inv[p]
    IN /\ (Draining(r) /\ r.pc = "done" /\
           (Unanswered(r) \/ (Len(r.pages) >= 2 /\ Last(r.pages).t # "dict"))) =>
            /\ r.err # ""
            /\ r.out = NoEnvelope
       /\ Returned(r, DrainingTools) => ~Unanswered(r)

\* C11 witness: the third fetch of a draining tool failed after two pages
\* had brought rows, and the tool raised the HTTP error.
C11_Witness ==
  \E p \in Procs :
    /\ Draining(inv[p])
    /\ inv[p].pc = "done"
    /\ Len(inv[p].pages) = 2
    /\ Len(inv[p].rows) >= 2
    /\ Unanswered(inv[p])
    /\ inv[p].err = "HTTPError"
    /\ inv[p].out = NoEnvelope

\* C12: every call of _make_graph_api_call is one GET: an invocation sends
\* each of its token-carrying requests once, has at most one request
\* outstanding, and when a request fails it ends there with the
\* RequestException, that request being its last and no envelope returned.
C12_NoRetry ==
  \A p \in Procs :
    LET r == inv[p]
    IN /\ \A i, j \in TokenReqs(r) : r.reqs[i].kind = r.reqs[j].kind => i = j
       /\ Len(OwnReqs(r)) - Len(r.pages) \in {0, 1}
       /\ (r.pc = "done" /\ r.err = "RequestException") =>
            /\ Last(r.reqs).token # Absent
            /\ r.pages = <<>>
            /\ r.out = NoEnvelope

\* C12 witness: the /me call of the default resolution was answered, the
\* tool's own call failed, and the tool raised after these two requests.
C12_Witness ==
  \E p \in Procs :
    /\ inv[p].pc = "done"
    /\ inv[p].err = "RequestException"
    /\ Len(inv[p].reqs) = 2
    /\ inv[p].reqs[1].kind = "me_default"
    /\ inv[p].reqs[2].kind = "insights"

\* C13: every request of an invocation other than a pagination fetch
\* carries an access_token parameter, which is the stored token (the one the
\* invocation found stored, when it found one); a pagination fetch is sent
\* to the URL it was given with no parameters at all.
C13_TokenOnEveryCall ==
  \A p \in Procs :
    LET r == inv[p]
    IN \A i \in 1..Len(r.reqs) :
         IF r.reqs[i].kind = "page"
           THEN r.reqs[i].token = Absent /\ IsStr(r.reqs[i].url)
           ELSE /\ r.reqs[i].token \notin {Absent, PyNone}
                /\ r.reqs[i].token = FB_ACCESS_TOKEN
                /\ ~IsNone(r.tok0) => r.reqs[i].token = r.tok0

\* C13 witness: an invocation sent the /me call and its own first call with
\* the token it found stored, and then a pagination fetch without one.
C13_Witness ==
  \E p \in Procs :
    /\ Len(inv[p].reqs) = 3
    /\ inv[p].reqs[1].kind = "me_default"
    /\ inv[p].reqs[1].token = Str(T1)
    /\ inv[p].reqs[2].token = Str(T1)
    /\ inv[p].reqs[3].kind = "page"
    /\ inv[p].tok0 = Str(T1)

\* Tools that send the access token.
Authenticated(r) ==
  r.pc # "idle" /\ r.tool \notin {"set_access_token", "fetch_pagination_url"}

\* --fb-token is on the command line with a word after it.
CliTokenGiven ==
  \E i \in 1..(Len(argv) - 1) :
    argv[i] = FlagToken /\ \A j \in 1..(i - 1) : argv[j] # FlagToken

\* The invocation found no token stored, MCP_CONFIG holds no fbToken (or an
\* empty one) and --fb-token is missing or is the last word of the command
\* line.
NoTokenResolvable(r) ==
  /\ IsNone(r.tok0)
  /\ ~Truthy(ConfiguredToken(ParsedConfig))
  /\ ~CliTokenGiven

\* C14: an authenticated tool that finds no token stored, none in
\* MCP_CONFIG and none after --fb-token (the flag missing, or present with
\* nothing after it) ends with an error and sends no request.
C14_NoTokenNoRequest ==
  \A p \in Procs :
    LET r == inv[p]
    IN (Authenticated(r) /\ NoTokenResolvable(r)) =>
         /\ r.reqs = <<>>
         /\ r.pc = "done"
         /\ r.err # ""
         /\ r.out = NoEnvelope

\* C14 witness: over HTTP, with --fb-token the last word of the command
\* line, get_campaign_insights raised without sending anything.
C14_Witness ==
  \E p \in Procs :
    /\ inv[p].tool = "get_campaign_insights"
    /\ NoTokenResolvable(inv[p])
    /\ argv = <<Prog, FlagToken>>
    /\ inv[p].pc = "done"
    /\ inv[p].err = "Exception"
    /\ inv[p].reqs = <<>>

\* C14 second witness: an account tool with no act_id, a default account on
\* the environment and no token raised without sending anything.
C14_AccountWitness ==
  \E p \in Procs :
    /\ inv[p].tool = "get_details_of_ad_account"
    /\ NoTokenResolvable(inv[p])
    /\ DEFAULT_AD_ACCOUNT.t = "dict"
    /\ inv[p].err = "Exception"
    /\ inv[p].reqs = <<>>

\* The stored token, once there is one, changes only in a call of
\* set_access_token.
TokenKept ==
  [][(~IsNone(FB_ACCESS_TOKEN) /\ FB_ACCESS_TOKEN' # FB_ACCESS_TOKEN)
       => \E p \in Procs : inv[p].pc = "idle" /\ inv'[p].tool = "set_access_token"]_vars

\* When set_access_token returns, the stored token is its trimmed argument;
\* a tool that finds a token stored reads that token and leaves it stored.
TokenRead ==
  \A p \in Procs :
    LET r == inv[p]
    IN /\ TokenSet(r) => FB_ACCESS_TOKEN = Str(Strip(r.token.v))
       /\ (Authenticated(r) /\ ~IsNone(r.tok0)) =>
            /\ FB_ACCESS_TOKEN = r.tok0
            /\ r.token \in {PyNone, r.tok0}
            /\ \A i \in TokenReqs(r) : r.reqs[i].token = r.tok0

MalformedConsulted == environ.MCP_CONFIG.kind = "malformed" /\ parses >= 1

\* C16 as stated: json.loads runs on MCP_CONFIG at most once in the life of
\* the process, and once malformed text has been met the configuration is
\* the empty one and the warning flag is up, so that no second warning is
\* printed.
C16_ParsedOnce ==
  /\ parses <= 1
  /\ MalformedConsulted =>
       /\ CONFIG_CACHE = EmptyConfig
       /\ CONFIG_LOAD_ERROR_LOGGED

\* The 'id' of a record, None when the record is no object or has none.
IdOf(x) == IF x.t = "dict" THEN Get(x.id) ELSE PyNone

\* The record at position i repeats the id of an earlier record.
Repeats(all, i) ==
  Truthy(IdOf(all[i])) /\ \E j \in 1..(i - 1) : IdOf(all[j]) = IdOf(all[i])

\* The records from position i on that repeat no earlier id, in order.
RECURSIVE KeptFrom(_, _)
KeptFrom(all, i) ==
  IF i > Len(all) THEN <<>>
  ELSE (IF Repeats(all, i) THEN <<>> ELSE <<all[i]>>) \o KeptFrom(all, i + 1)

\* C17: the list that list_ad_accounts returns holds, in their order, the
\* records of all the drained pages less every record whose id an earlier
\* record already had; so no id occurs in it twice.
C17_FirstOccurrenceKept ==
  \A p \in Procs :
    LET r == inv[p]
    IN (Returned(r, {"list_ad_accounts"}) /\ r.pages[1].t = "dict") =>
         /\ r.out.data = DataList(KeptFrom(RowsOfPages(r.pages), 1))
         /\ \A i, j \in 1..Len(r.out.data.items) :
              (Truthy(IdOf(r.out.data.items[i])) /\
               IdOf(r.out.data.items[i]) = IdOf(r.out.data.items[j])) => i = j

\* C17 witness: the second page repeated an id of the first after a new
\* one, and the list returned has the two ids once each, first come first.
C17_Witness ==
  \E p \in Procs :
    /\ Returned(inv[p], {"list_ad_accounts"})
    /\ RowsOfPages(inv[p].pages) = <<RowA, RowB, RowA>>
    /\ inv[p].out.data = DataList(<<RowA, RowB>>)

\* The insights request of invocation r, and whether r has made it.
AskedInsights(r) ==
  /\ r.tool \in ObjectInsightsTools
  /\ r.reqs # <<>>

\* The caller supplied the argument key with a value that is not empty.
Supplied(r, key) == key \in DOMAIN r.kw /\ Truthy(r.kw[key])

Has(r, key) == key \in DOMAIN r.reqs[1].params

ParamOf(r, key) == r.reqs[1].params[key]

\* C18: when both time_ranges and time_range are supplied to the insights
\* parameter builder, the built parameters contain time_ranges and do not
\* contain time_range.
C18_TimeRangesOverrides ==
  \A p \in Procs :
    LET r == inv[p]
    IN AskedInsights(r) /\ Supplied(r, "time_range") /\ Supplied(r, "time_ranges")
         => Has(r, "time_ranges") /\ ~Has(r, "time_range")

\* The value of the argument key in the call: what the caller supplied, or
\* the default of the signature.
ArgOf(r, key) ==
  IF key \in DOMAIN r.kw THEN r.kw[key]
  ELSE IF key = "date_preset" THEN Str(<<"last_30d">>)
  ELSE PyNone

Given(r, key) == Truthy(ArgOf(r, key))

\* C19: date_preset is emitted only when none of time_range, time_ranges,
\* since, until is supplied; since and until are emitted only when neither
\* time_range nor time_ranges is supplied, and then each one supplied is
\* emitted with the value the caller gave.  (An argument left out, None or
\* empty counts as not supplied.)
C19_DatePresetSinceUntil ==
  \A p \in Procs :
    LET r == inv[p]
    IN AskedInsights(r) =>
         /\ Has(r, "date_preset") =>
              /\ \A key \in {"time_range", "time_ranges", "since", "until"} :
                   ~Given(r, key)
              /\ ParamOf(r, "date_preset") = ArgOf(r, "date_preset")
         /\ \A key \in {"since", "until"} :
              /\ Has(r, key) =>
                   ~Given(r, "time_range") /\ ~Given(r, "time_ranges")
              /\ ~Given(r, "time_range") /\ ~Given(r, "time_ranges") =>
                   /\ Has(r, key) <=> Given(r, key)
                   /\ Has(r, key) => ParamOf(r, key) = ArgOf(r, key)

\* since was supplied without a range: it is sent as given, with no
\* date_preset, although the caller named a preset.
C19_Witness ==
  \E p \in Procs :
    /\ AskedInsights(inv[p])
    /\ Given(inv[p], "since")
    /\ ~Given(inv[p], "until")
    /\ "date_preset" \in DOMAIN inv[p].kw
    /\ Given(inv[p], "date_preset")
    /\ ParamOf(inv[p], "since") = Str(<<"2024-03-01">>)
    /\ ~Has(inv[p], "until")
    /\ ~Has(inv[p], "date_preset")

\* get_campaign_insights was invoked with campaign_id "123" and no other
\* argument, and has got as far as its request.
DefaultCampaignCall(r) ==
  /\ r.tool = "get_campaign_insights"
  /\ r.kw = NoParams
  /\ r.pc # "idle"

\* C20: get_campaign_insights with campaign_id="123" and no other argument
\* builds exactly one request to <graph>/123/insights whose parameters carry
\* level=campaign, date_preset=last_30d, action_breakdowns set to the
\* documented default (action_type), use_unified_attribution_setting as the
\* string true, and no time_range, time_increment or breakdowns key.
C20_DefaultCampaignRequest ==
  \A p \in Procs :
    LET r == inv[p]
    IN DefaultCampaignCall(r) =>
         /\ Len(r.reqs) = 1
         /\ r.reqs[1].kind = "object_insights"
         /\ r.reqs[1].id = <<"123">>
         /\ Has(r, "level") /\ ParamOf(r, "level") = Str(<<"campaign">>)
         /\ Has(r, "date_preset") /\ ParamOf(r, "date_preset") = Str(<<"last_30d">>)
         /\ Has(r, "use_unified_attribution_setting")
         /\ ParamOf(r, "use_unified_attribution_setting") = Str(<<"true">>)
         /\ ~Has(r, "time_range")
         /\ ~Has(r, "time_increment")
         /\ ~Has(r, "breakdowns")
         /\ Has(r, "action_breakdowns")
         /\ ParamOf(r, "action_breakdowns") = Str(<<"action_type">>)

\* The part of C20 that the request meets: everything but action_breakdowns,
\* which is left out.
C20_RequestAsBuilt ==
  \A p \in Procs :
    LET r == inv[p]
    IN DefaultCampaignCall(r) =>
         /\ Len(r.reqs) = 1
         /\ r.reqs[1].kind = "object_insights"
         /\ r.reqs[1].id = <<"123">>
         /\ DOMAIN r.reqs[1].params =
              {"access_token", "level", "date_preset",
               "use_unified_attribution_setting"}
         /\ ParamOf(r, "level") = Str(<<"campaign">>)
         /\ ParamOf(r, "date_preset") = Str(<<"last_30d">>)
         /\ ParamOf(r, "use_unified_attribution_setting") = Str(<<"true">>)

FlagKeys ==
  {"default_summary", "use_account_attribution_setting",
   "use_unified_attribution_setting"}

\* The flag key of the call is true: as the caller gave it, or by the
\* default of the signature (only use_unified_attribution_setting is True).
FlagSet(r, key) ==
  IF key \in DOMAIN r.kw THEN r.kw[key] = PyTrue
  ELSE key = "use_unified_attribution_setting"

\* C21: each of default_summary, use_account_attribution_setting and
\* use_unified_attribution_setting is emitted as the string 'true' exactly
\* when its argument is true and is left out when it is false; no 'false'
\* value is ever emitted for any of them.
C21_FlagsTrueOrOmitted ==
  \A p \in Procs :
    LET r == inv[p]
    IN AskedInsights(r) =>
         \A key \in FlagKeys :
           /\ Has(r, key) <=> FlagSet(r, key)
           /\ Has(r, key) => ParamOf(r, key) = Str(<<"true">>)

\* A call with default_summary=True and
\* use_unified_attribution_setting=False: the first is sent as 'true', the
\* second is left out.
C21_Witness ==
  \E p \in Procs :
    /\ AskedInsights(inv[p])
    /\ "default_summary" \in DOMAIN inv[p].kw
    /\ inv[p].kw["default_summary"] = PyTrue
    /\ "use_unified_attribution_setting" \in DOMAIN inv[p].kw
    /\ inv[p].kw["use_unified_attribution_setting"] = PyFalse
    /\ Has(inv[p], "default_summary")
    /\ ParamOf(inv[p], "default_summary") = Str(<<"true">>)
    /\ ~Has(inv[p], "use_unified_attribution_setting")
    /\ ~Has(inv[p], "use_account_attribution_setting")

\* _fetch_node was called and has made its request.
AskedNode(r) ==
  /\ r.tool = "_fetch_node"
  /\ r.reqs # <<>>

\* The keys of the request's parameters.
KeysOf(r) == DOMAIN r.reqs[1].params

EmptyOrZero == {Str(<<>>), Num(<<"0">>)}

\* C22: for every optional argument left unset (None), the built mapping has
\* no key, not even with a null or empty value; only None counts as unset:
\* an empty string or a zero passed to the normalizer is kept as it is.
\* Stated of _prepare_params as _fetch_node calls it, and of the arguments
\* _build_insights_params receives.
C22_UnsetOmitted ==
  \A p \in Procs :
    LET r == inv[p]
    IN /\ AskedNode(r) =>
            /\ KeysOf(r) =
                 {"access_token"} \cup {k \in DOMAIN r.kw : ~IsNone(r.kw[k])}
            /\ \A k \in DOMAIN r.kw :
                 r.kw[k] \in EmptyOrZero => ParamOf(r, k) = r.kw[k]
       /\ AskedInsights(r) =>
            /\ \A k \in InsightsArgs \ (FlagKeys \cup {"level"}) :
                 IsNone(ArgOf(r, k)) => ~Has(r, k)
            /\ \A k \in PreparedKeys \cap DOMAIN r.kw :
                 r.kw[k] \in EmptyOrZero => Has(r, k) /\ ParamOf(r, k) = r.kw[k]

\* _fetch_node called with fields=None, sort='' and limit=0: the request has
\* sort and limit as given and no fields key.
C22_Witness ==
  \E p \in Procs :
    /\ AskedNode(inv[p])
    /\ "fields" \in DOMAIN inv[p].kw
    /\ inv[p].kw["fields"] = PyNone
    /\ inv[p].kw["sort"] = Str(<<>>)
    /\ inv[p].kw["limit"] = Num(<<"0">>)
    /\ KeysOf(inv[p]) = {"access_token", "sort", "limit"}
    /\ ParamOf(inv[p], "sort") = Str(<<>>)
    /\ ParamOf(inv[p], "limit") = Num(<<"0">>)

\* json.loads, for the texts json.dumps writes: the value read from the
\* front of the text and the text left after it.
Parsed1(val, rest) == [val |-> val, rest |-> rest]

RECURSIVE ParseChars(_, _)
RECURSIVE ParseValue(_)
RECURSIVE ParseItems(_, _)
RECURSIVE ParsePairs(_, _)
RECURSIVE ItemsAfter(_, _)
RECURSIVE PairValue(_, _)
RECURSIVE PairsAfter(_, _, _)

\* The characters up to the closing quote.
ParseChars(text, acc) ==
  IF Head(text) = "\"" THEN Parsed1(acc, Tail(text))
  ELSE IF Head(text) = "\\" THEN ParseChars(Tail(Tail(text)), Append(acc, text[2]))
  ELSE ParseChars(Tail(text), Append(acc, Head(text)))

StrOf(chars) == Parsed1(Str(chars.val), chars.rest)

ParseValue(text) ==
  CASE Head(text) = "\"" -> StrOf(ParseChars(Tail(text), <<>>))
    [] Head(text) = "null" -> Parsed1(PyNone, Tail(text))
    [] Head(text) = "true" -> Parsed1(PyTrue, Tail(text))
    [] Head(text) = "false" -> Parsed1(PyFalse, Tail(text))
    [] Head(text) = "[" ->
         IF text[2] = "]" THEN Parsed1(List(<<>>), Tail(Tail(text)))
         ELSE ParseItems(Tail(text), <<>>)
    [] Head(text) = "{" ->
         IF text[2] = "}" THEN Parsed1(Dict(<<>>), Tail(Tail(text)))
         ELSE ParsePairs(Tail(text), <<>>)
    [] OTHER -> Parsed1(Num(<<Head(text)>>), Tail(text))

ParseItems(text, acc) == ItemsAfter(ParseValue(text), acc)

ItemsAfter(item, acc) ==
  IF Head(item.rest) = ", "
    THEN ParseItems(Tail(item.rest), Append(acc, item.val))
    ELSE Parsed1(List(Append(acc, item.val)), Tail(item.rest))

ParsePairs(text, acc) == PairValue(ParseChars(Tail(text), <<>>), acc)

PairValue(key, acc) == PairsAfter(key.val, ParseValue(Tail(key.rest)), acc)

PairsAfter(key, item, acc) ==
  IF Head(item.rest) = ", "
    THEN ParsePairs(Tail(item.rest), Append(acc, <<key, item.val>>))
    ELSE Parsed1(Dict(Append(acc, <<key, item.val>>)), Tail(item.rest))

\* The text decodes, all of it, to the value.
DecodesTo(text, value) == ParseValue(text) = Parsed1(value, <<>>)

\* The strings of a list with a comma between each two.
RECURSIVE CommaSeparated(_)
CommaSeparated(items) ==
  IF Len(items) = 0 THEN <<>>
  ELSE IF Len(items) = 1 THEN items[1].v
  ELSE CommaSeparated(SubSeq(items, 1, Len(items) - 1))
         \o <<",">> \o items[Len(items)].v

TableJoined ==
  {"fields", "action_attribution_windows", "action_breakdowns", "breakdowns"}

TableJson ==
  {"filtering", "time_range", "time_ranges", "effective_status",
   "special_ad_categories", "objective", "buyer_guarantee_agreement_status"}

\* The value out follows the key table for the argument value under key.
FollowsTable(key, value, out) ==
  IF key \in TableJoined /\ value.t = "list"
    THEN out = Str(CommaSeparated(value.v))
  ELSE IF key \in TableJson /\ value.t \in {"list", "dict"}
    THEN IsStr(out) /\ DecodesTo(out.v, value)
  ELSE out = value

\* C23: for every non-None argument the normalizer's output value follows
\* the key table: a list under a joined key becomes its elements joined with
\* ','; a list or mapping under a JSON key becomes a JSON string that decodes
\* back to an equal structure; every other key or value shape is passed
\* through unchanged.
C23_KeyTable ==
  \A p \in Procs :
    LET r == inv[p]
    IN /\ AskedNode(r) =>
            \A k \in DOMAIN r.kw :
              ~IsNone(r.kw[k]) => FollowsTable(k, r.kw[k], ParamOf(r, k))
       /\ AskedInsights(r) =>
            \A k \in (PreparedKeys \ {"level"}) \cap DOMAIN r.kw :
              ~IsNone(r.kw[k]) => FollowsTable(k, r.kw[k], ParamOf(r, k))

\* _fetch_node called with a list of fields, a list of statuses holding a
\* quote and a backslash, a time_range mapping, a nested filtering list, a
\* number, a string and a list under a key outside the table.
C23_Witness ==
  \E p \in Procs :
    /\ AskedNode(inv[p])
    /\ KeysOf(inv[p]) =
         {"access_token", "fields", "effective_status", "time_range",
          "filtering", "limit", "sort", "ids"}
    /\ ParamOf(inv[p], "access_token") = Str(<<"TA">>)
    /\ ParamOf(inv[p], "fields") = Str(<<"id", ",", "name">>)
    /\ ParamOf(inv[p], "effective_status") =
         Str(<<"[", "\"", "ACTIVE", "\"", ", ",
               "\"", "PAU", "\\", "\"", "SED", "\\", "\\", "\"", "]">>)
    /\ inv[p].kw["time_range"] = Range1
    /\ IsStr(ParamOf(inv[p], "time_range"))
    /\ inv[p].kw["filtering"] # PyNone
    /\ IsStr(ParamOf(inv[p], "filtering"))
    /\ ParamOf(inv[p], "limit") = Num(<<"25">>)
    /\ ParamOf(inv[p], "sort") = Str(<<"spend">>)
    /\ ParamOf(inv[p], "ids") = List(<<Str(<<"1">>), Str(<<"2">>)>>)

\* An act_id tool was called with an act_id whose trimmed text is not empty.
ExplicitId(r) ==
  /\ r.tool \in AccountTools
  /\ Truthy(r.arg)
  /\ Strip(PyStr(r.arg)) # <<>>

\* The id is trimmed and starts with act_.
InNormalForm(id) == StartsWithAct(id) /\ Strip(id) = id

\* C24: account-id normalization is idempotent: an id that is already
\* act_-prefixed (and trimmed) comes back as the identical string, and
\* normalize(normalize(x)) = normalize(x) for every x whose trimmed value is
\* not empty.  The id a tool sends is normalize(x); normalized again it is
\* itself.
C24_NormalizeIdempotent ==
  \A p \in Procs :
    LET r == inv[p]
    IN ExplicitId(r) =>
         /\ normalize_act_id(r.arg).err = ""
         /\ normalize_act_id(Str(normalize_act_id(r.arg).val)) =
              normalize_act_id(r.arg)
         /\ IsStr(r.arg) /\ InNormalForm(r.arg.v) =>
              normalize_act_id(r.arg) = Ok(r.arg.v)
         /\ \A i \in AccountReqs(r) :
              /\ r.reqs[i].id = normalize_act_id(r.arg).val
              /\ InNormalForm(r.reqs[i].id)
              /\ normalize_act_id(Str(r.reqs[i].id)) = Ok(r.reqs[i].id)

\* A tool called with act_id "act_2" has sent its request for "act_2".
C24_Witness ==
  \E p \in Procs :
    /\ ExplicitId(inv[p])
    /\ inv[p].arg = Str(ACT \o <<"2">>)
    /\ Len(inv[p].reqs) = 1
    /\ inv[p].reqs[1].id = ACT \o <<"2">>
    /\ inv[p].pc = "done"
    /\ inv[p].err = ""

\* An act_id tool was called with a string that is not empty.
SuppliedId(r) ==
  /\ r.tool \in AccountTools
  /\ IsStr(r.arg)
  /\ r.arg.v # <<>>

\* The invocation has come to resolve its act_id: get_details_of_ad_account
\* resolves it first, the other tools once they have read the token.
Resolving(r) ==
  /\ r.pc # "idle"
  /\ r.tool = "get_details_of_ad_account" \/ ~IsNone(r.token)

\* C25: resolving a supplied non-empty identifier strips surrounding
\* whitespace and adds the act_ prefix when missing; when the trimmed value
\* is empty the resolution fails with ValueError: the tool sends nothing and
\* does not fall back to the default account.
C25_ResolveSuppliedId ==
  \A p \in Procs :
    LET r == inv[p]
    IN SuppliedId(r) /\ Resolving(r) =>
         IF Strip(r.arg.v) = <<>>
           THEN /\ r.pc = "done"
                /\ r.err = "ValueError"
                /\ r.reqs = <<>>
           ELSE /\ r.act = Prefixed(Strip(r.arg.v))
                /\ ~AskedMe(r)
                /\ \A i \in AccountReqs(r) : r.reqs[i].id = r.act
                /\ r.err # "ValueError"

\* A whitespace-only act_id failed with ValueError while a default account
\* was cached.
C25_Witness ==
  \E p \in Procs :
    /\ SuppliedId(inv[p])
    /\ Strip(inv[p].arg.v) = <<>>
    /\ inv[p].pc = "done"
    /\ inv[p].err = "ValueError"
    /\ inv[p].reqs = <<>>
    /\ DEFAULT_AD_ACCOUNT.t = "dict"

\* A padded act_id without the prefix was sent trimmed and prefixed.
C25_TrimmedWitness ==
  \E p \in Procs :
    /\ SuppliedId(inv[p])
    /\ inv[p].arg = Str(<<" ", "1", " ">>)
    /\ Len(inv[p].reqs) = 1
    /\ inv[p].reqs[1].id = ACT \o <<"1">>

\* The first body of a draining tool is a mapping whose data is missing or
\* is no list.
FirstDataNoList(r) ==
  /\ r.tool \in DrainingTools
  /\ r.pages # <<>>
  /\ r.pages[1].t = "dict"
  /\ r.pages[1].data.t # "list"

\* The rows the continuation pages add to an accumulator that starts empty.
LaterRows(r) ==
  IF r.tool = "list_ad_accounts"
    THEN KeptFrom(RowsOfPages(Tail(r.pages)), 1)
    ELSE RowsOfPages(Tail(r.pages))

\* The tool goes on from a first body whose data is no list as from one
\* with no rows: it fetches the next page when there is one, and returns a
\* list made of the later pages' rows.
StartsEmpty(r) ==
  /\ r.err \notin {"TypeError", "AttributeError"} \/ Len(r.pages) > 1
  /\ HasNext(r.pages[1]) /\ Len(r.pages) = 1 /\ r.err = "" => r.pc = "drain"
  /\ r.pc = "done" /\ r.err = "" =>
       /\ r.out.data.t = "list"
       /\ r.out.data = DataList(LaterRows(r))

\* C26: in both draining tools (get_adaccount_insights and list_ad_accounts),
\* when the first response's data is missing or is not a list, the
\* accumulator starts empty, draining proceeds normally, and the returned
\* envelope's data is a list.
C26_NonListDataStartsEmpty ==
  \A p \in Procs : FirstDataNoList(inv[p]) => StartsEmpty(inv[p])

\* The part of C26 that the tools meet: get_adaccount_insights always, and
\* list_ad_accounts when data is missing.
C26_StartsEmptyUnlessListed ==
  \A p \in Procs :
    LET r == inv[p]
    IN FirstDataNoList(r) /\
       (r.tool = "get_adaccount_insights" \/ r.pages[1].data = DataMissing)
         => StartsEmpty(r)

\* The continuation fetches of an invocation, in the order it issued them.
PageReqs(r) == SelectSeq(r.reqs, LAMBDA q : q.kind = "page")

\* A draining tool is in its loop: its first body was a mapping it took.
InLoop(r) ==
  /\ r.tool \in DrainingTools
  /\ r.pages # <<>>
  /\ r.pages[1].t = "dict"
  /\ r.err # "TypeError"

\* The fetches follow the chain one at a time: fetch k is for the next URL
\* of page k, which was read when page k had come; at most one fetch is out
\* (or has failed, which ends the invocation);
\* the loop is left only when the last page has no next, and while a page
\* has one the following fetch is out, however many pages came before.
ChainOrder(r) ==
  /\ Len(PageReqs(r)) =
       Len(r.pages) - 1 + (IF r.pc = "drain" \/ r.err = "HTTPError" THEN 1 ELSE 0)
  /\ \A k \in 1..Len(PageReqs(r)) :
       /\ HasNext(r.pages[k])
       /\ PageReqs(r)[k].url = r.pages[k].paging.next
  /\ r.pc = "done" /\ r.err = "" => ~HasNext(Last(r.pages))
  /\ HasNext(Last(r.pages)) /\ r.err = "" => r.pc = "drain"

C27_ChainOrder == \A p \in Procs : InLoop(inv[p]) => ChainOrder(inv[p])

\* C27: for a chain of n pages (pages 1..n-1 carry paging.next, page n does
\* not) the drain loop ends after exactly n-1 continuation fetches, issued
\* one at a time in chain order, each from the next URL of the page before;
\* nothing but the absence of next stops the loop, so the fetching goes on
\* as long as pages carry a next; and when every fetch completes, a finite
\* chain is drained to its end.
C27_DrainTerminates ==
  /\ []C27_ChainOrder
  /\ \A p \in Procs : (inv[p].pc = "drain") ~> (inv[p].pc = "done")

\* A chain of MaxPages pages was drained with MaxPages - 1 fetches.
C27_Witness ==
  \E p \in Procs :
    /\ Returned(inv[p], DrainingTools)
    /\ Len(inv[p].pages) = MaxPages
    /\ Len(PageReqs(inv[p])) = MaxPages - 1
    /\ \A k \in 1..(MaxPages - 1) : HasNext(inv[p].pages[k])
    /\ ~HasNext(inv[p].pages[MaxPages])

\* The token argument is empty, whitespace-only or no string.
InvalidToken(x) == ~IsStr(x) \/ Strip(x.v) = <<>>

\* C28: set_access_token called with an empty, whitespace-only or non-string
\* token raises ValueError and leaves the stored access token and the cached
\* default ad account exactly as they were before the call.
C28_InvalidTokenChangesNothing ==
  [][\A p \in Procs :
       (inv[p].pc = "idle" /\ inv'[p].tool = "set_access_token"
          /\ InvalidToken(inv'[p].token))
         => /\ inv'[p].pc = "done"
            /\ inv'[p].err = "ValueError"
            /\ FB_ACCESS_TOKEN' = FB_ACCESS_TOKEN
            /\ DEFAULT_AD_ACCOUNT' = DEFAULT_AD_ACCOUNT]_vars

\* set_access_token given a blank token and an act_id has raised, and the
\* token and the account stored before the call are still stored.
C28_Witness ==
  \E p \in Procs :
    /\ inv[p].tool = "set_access_token"
    /\ inv[p].pc = "done"
    /\ inv[p].err = "ValueError"
    /\ inv[p].token = Str(<<" ">>)
    /\ Truthy(inv[p].arg)
    /\ inv[p].tok0 = Str(T1)
    /\ inv[p].acct0.t = "dict"
    /\ FB_ACCESS_TOKEN = inv[p].tok0
    /\ DEFAULT_AD_ACCOUNT = inv[p].acct0

\* A resolution with no explicit id that finds nothing cached and gets no id
\* from the configuration asks the remote, unless the token cannot be read.
QueriesWhenUnset ==
  \A p \in Procs :
    LET r == inv[p]
    IN (Defaulting(r) /\ r.acct0.t = "none" /\ ~SourcesYield) =>
         \/ AskedMe(r)
         \/ r.pc = "done" /\ r.err = "Exception" /\ r.reqs = <<>>

\* The /me call of a resolution ends: when it fails, or its body yields no
\* id, the tool raises and nothing is cached; else the account is cached.
FailureLeavesUnset ==
  [][\A p \in Procs :
       (inv[p].pc = "me" /\ inv'[p].pc # "me") =>
         /\ DEFAULT_AD_ACCOUNT = NoAccount
         /\ IF inv'[p].me = inv[p].me \/ YieldedId(inv'[p].me) = <<>>
              THEN /\ inv'[p].pc = "done"
                   /\ inv'[p].err # ""
                   /\ AccountReqs(inv'[p]) = {}
                   /\ DEFAULT_AD_ACCOUNT' = NoAccount
              ELSE /\ inv'[p].err # "ValueError"
                   /\ DEFAULT_AD_ACCOUNT'.t = "dict"
                   /\ DEFAULT_AD_ACCOUNT'.id = YieldedId(inv'[p].me)]_vars

\* C29: when the remote default-account resolution fails or returns no usable
\* ad account, the call raises and the cache stays unset; and every
\* resolution with no explicit id that finds the cache unset (and no id in
\* the configuration) issues a remote query of its own: failures are not
\* remembered.
C29_FailuresNotMemoized == []QueriesWhenUnset /\ FailureLeavesUnset

\* A resolution whose /me body listed no account has raised, and nothing is
\* cached.
C29_Witness ==
  \E p \in Procs :
    /\ Defaulting(inv[p])
    /\ inv[p].acct0.t = "none"
    /\ AskedMe(inv[p])
    /\ inv[p].me = Envelope(DataList(<<NotARow>>), PagingMissing)
    /\ inv[p].pc = "done"
    /\ inv[p].err = "ValueError"
    /\ DEFAULT_AD_ACCOUNT = NoAccount

\* The invocation of an act_id tool was given a non-empty act_id.
Explicit(r) == r.pc # "idle" /\ r.tool \in AccountTools /\ Truthy(r.arg)

\* C30: a tool call with an explicit non-empty act_id issues no /me
\* resolution query and none of its steps changes the cached default
\* account, whatever the cache holds; the account it asks about is the one
\* named by the argument, not the cached one.
C30_ExplicitIdLeavesCache ==
  [][\A p \in Procs :
       (inv'[p] # inv[p] /\ Explicit(inv'[p])) =>
         /\ DEFAULT_AD_ACCOUNT' = DEFAULT_AD_ACCOUNT
         /\ ~AskedMe(inv'[p])
         /\ \A i \in AccountReqs(inv'[p]) :
              inv'[p].reqs[i].id = Prefixed(Strip(inv'[p].arg.v))]_vars

\* A call with an explicit act_id was answered while another account was
\* cached as the default, and the cache is as the call found it.
C30_Witness ==
  \E p \in Procs :
    /\ Explicit(inv[p])
    /\ inv[p].pc = "done"
    /\ inv[p].err = ""
    /\ inv[p].acct0.t = "dict"
    /\ DEFAULT_AD_ACCOUNT = inv[p].acct0
    /\ AccountReqs(inv[p]) # {}
    /\ \A i \in AccountReqs(inv[p]) : inv[p].reqs[i].id # DEFAULT_AD_ACCOUNT.id
====
